---- MODULE Spec2Model ----
(***************************************************************************)
(* A model of the quality-insights analysis layer: the record store of    *)
(* src/src/data/mock_data.py (three lazily filled module-level caches)    *)
(* and the analysis tools of src/src/tools that read through it.          *)
(*                                                                         *)
(* Numbers.  The tools compute in binary floating point and round to two  *)
(* decimals.  The model computes the same quotients exactly and keeps    *)
(* every rounded value as an integer number of hundredths (72.92 is      *)
(* 7292).  The data sets below hold no value whose exact quotient lies   *)
(* on a rounding tie, where float error could decide differently.        *)
(***************************************************************************)
EXTENDS Integers, Sequences, FiniteSets, TLC

VARIABLES
    source,     \* the three backing files DATA_DIR/<c>_data.json, as they are on disk
    cache,      \* _jira_cache, _zephyr_cache, _incident_cache
    now,        \* datetime.now(timezone.utc), in minutes
    reads,      \* history: how often each backing file has been opened
    writes,     \* history: how often each cache variable was assigned by a load
    fills,      \* history: non-null assignments to each cache since the last clear_cache
    loadsSince, \* history: load calls on each collection since the last clear_cache (0, 1, 2 = more)
    held,       \* history: the first non-null structure a load returned since the last clear_cache
    cleared,    \* history: clear_cache has been called
    changes,    \* history: how often the environment rewrote a backing file
    dirty,      \* history: the backing file was rewritten after the process first read it
    last,       \* the last call: what was called and how it ended
    result,     \* the mapping the last tool call returned
    probe,      \* history: one earlier tool call, remembered with its result
    pc,         \* per thread: position inside load_*_data
    loc         \* per thread: the collection being loaded and the value json.load gave

vars == <<source, cache, now, reads, writes, fills, loadsSince, held, cleared,
          changes, dirty, last, result, probe, pc, loc>>

(***************************************************************************)
(* Bounds of the model.                                                    *)
(***************************************************************************)
\* file reads per collection that the model follows
MaxReads == 2
\* rewrites of backing files by the environment
MaxChanges == 1
\* days the clock may advance
MaxDays == 1
\* longest stored sprint sequence in the delivery specification
MaxSprints == 2
\* largest num_sprints argument tried
MaxNum == 3

Coll == {"jira", "zephyr", "incident"}
Threads == {"t1", "t2"}

(***************************************************************************)
(* Arithmetic.                                                             *)
(***************************************************************************)
Min(a, b) == IF a <= b THEN a ELSE b
Max(a, b) == IF a >= b THEN a ELSE b

\* round(n/d) to the nearest integer, ties to even, as Python's round() does
\* on an exactly represented value; d > 0, n any integer.
RoundHalfEven(n, d) ==
    LET q == n \div d
        r == n - q * d
    IN  IF 2 * r < d THEN q
        ELSE IF 2 * r > d THEN q + 1
        ELSE IF q % 2 = 0 THEN q ELSE q + 1

\* round(n/d, 2) in hundredths
Round2(n, d) == RoundHalfEven(n * 100, d)

RECURSIVE SumSeq(_)
SumSeq(s) == IF s = <<>> THEN 0 ELSE Head(s) + SumSeq(Tail(s))

RECURSIVE SelectIdx(_, _, _)
\* the indices i of s, ascending, with Test(s[i])
SelectIdx(s, Test(_), i) ==
    IF i > Len(s) THEN <<>>
    ELSE IF Test(s[i]) THEN <<i>> \o SelectIdx(s, Test, i + 1)
    ELSE SelectIdx(s, Test, i + 1)

\* [x for x in s if Test(x)]
Filter(s, Test(_)) == LET ix == SelectIdx(s, Test, 1) IN [k \in 1..Len(ix) |-> s[ix[k]]]

\* sum(1 for x in s if Test(x))
Count(s, Test(_)) == Len(SelectIdx(s, Test, 1))

(***************************************************************************)
(* Python objects.  A file is what is on disk; an object is what          *)
(* json.load built from it, with an identity (id) of its own.             *)
(***************************************************************************)
\* Python's None: the empty cache, and what json.load gives for the text null
NoneObj == [id |-> 0, kind |-> "none", body |-> <<>>]

\* a backing file: absent, not JSON, the JSON text null, a JSON object that
\* lacks the collection key, or a well shaped collection
MissingFile == [kind |-> "missing", body |-> <<>>]
BadSyntaxFile == [kind |-> "bad_syntax", body |-> <<>>]
NullFile == [kind |-> "null", body |-> <<>>]
ObjectFile == [kind |-> "object", body |-> <<>>]
DataFile(b) == [kind |-> "data", body |-> b]

\* the exceptions open() and json.load() raise; the specification calls
\* them DataSourceError
DataSourceError == {"FileNotFoundError", "JSONDecodeError"}

(***************************************************************************)
(* The stored collections.  Dates and instants are minutes since an       *)
(* epoch; a date_range is the pair <<start_date, end_date>>.              *)
(***************************************************************************)
MinutesPerDay == 1440

\* sprint_name of the i-th stored sprint: names are unique keys
SprintNames == <<"Sprint 1", "Sprint 2", "Sprint 3", "Sprint 4">>
\* cycle_name of the i-th stored test cycle
CycleNames == <<"Cycle 1", "Cycle 2", "Cycle 3", "Cycle 4">>

\* a ticket: status and whether completed_at is set
Ticket(st, done) == [status |-> st, completed_at |-> done]

\* the tickets of the i-th stored sprint: every other sprint has none
SprintTickets(i) ==
    IF i % 2 = 0 THEN <<>>
    ELSE <<Ticket("done", TRUE), Ticket("done", FALSE), Ticket("in_progress", FALSE),
           Ticket("blocked", FALSE), Ticket("todo", FALSE)>>

\* <<planned_points, completed_points>> of a sprint (both >= 0, as
\* SprintMetrics demands): velocities 0, 0, 72.92, 96, 100, 105, 110
PointPairs ==
    { <<0, 0>>, <<0, 5>>, <<48, 35>>, <<50, 48>>, <<20, 20>>, <<20, 21>>, <<20, 22>> }

Sprint(i, pp, tk) ==
    [sprint_name |-> SprintNames[i], start_date |-> i * 14, end_date |-> i * 14 + 13,
     planned_points |-> pp[1], completed_points |-> pp[2], tickets |-> tk]

\* every stored sprint sequence of length n
SprintSeqs(n) ==
    { [i \in 1..n |-> Sprint(i, pps[i], SprintTickets(i))] : pps \in [1..n -> PointPairs] }

JiraBodies == UNION { SprintSeqs(n) : n \in 0..MaxSprints }

\* a test execution
Execution(id, st) == [test_id |-> id, test_name |-> id, status |-> st]

Cycle(i, ex) ==
    [cycle_name |-> CycleNames[i], start_date |-> i * 7, end_date |-> i * 7 + 6,
     executions |-> ex]

\* an incident; resolved_at = -1 stands for None
Incident(id, sev, rep, res, users) ==
    [id |-> id, title |-> id, severity |-> sev, reported_at |-> rep,
     resolved_at |-> res, affected_users |-> users]

\* the instant the process starts at
StartInstant == 40 * MinutesPerDay

\* the two versions of each collection the store specification moves between
JiraA == <<Sprint(1, <<50, 48>>, <<>>), Sprint(2, <<48, 35>>, <<Ticket("done", TRUE)>>)>>
JiraB == <<Sprint(1, <<20, 20>>, <<>>)>>
ZephyrA ==
    <<Cycle(1, <<Execution("T1", "passed"), Execution("T2", "failed")>>),
      Cycle(2, <<Execution("T1", "failed"), Execution("T2", "failed")>>),
      Cycle(3, <<Execution("T1", "failed"), Execution("T2", "skipped")>>)>>
ZephyrB == <<Cycle(1, <<Execution("T1", "passed")>>)>>
IncidentA ==
    <<Incident("INC-1", "critical", StartInstant - 10 * MinutesPerDay,
               StartInstant - 10 * MinutesPerDay + 390, 120),
      Incident("INC-2", "low", StartInstant - 30 * MinutesPerDay, -1, 5)>>
IncidentB == <<Incident("INC-3", "high", StartInstant - MinutesPerDay, -1, 7)>>

StoreBodies(c) ==
    CASE c = "jira" -> {JiraA, JiraB}
      [] c = "zephyr" -> {ZephyrA, ZephyrB}
      [] c = "incident" -> {IncidentA, IncidentB}

\* what a backing file of the store specification may hold
StoreFiles(c) ==
    {MissingFile, BadSyntaxFile, NullFile, ObjectFile} \cup {DataFile(b) : b \in StoreBodies(c)}

(***************************************************************************)
(* The record store: load_jira_data, load_zephyr_data, load_incident_data *)
(* and clear_cache.                                                        *)
(***************************************************************************)
\* a load that never looks at the cache
CacheIsNone_Always(c) == TRUE

\* `if _jira_cache is None`
CacheIsNone(c) == cache[c] = NoneObj

\* json.load(f) on a file that opened and parsed: the text null gives None,
\* anything else a new object
JsonLoad(file, newId) ==
    IF file.kind = "null" THEN NoneObj
    ELSE [id |-> newId, kind |-> file.kind, body |-> file.body]

\* load_<c>_data that answers an unreadable file with an empty mapping
LoadOutcome_Swallow(c) ==
    IF cache[c] # NoneObj
    THEN [read |-> FALSE, raised |-> "none", assigned |-> FALSE, value |-> cache[c]]
    ELSE IF source[c].kind \in {"missing", "bad_syntax"}
    THEN [read |-> TRUE, raised |-> "none", assigned |-> TRUE,
          value |-> [id |-> reads[c] + 1, kind |-> "object", body |-> <<>>]]
    ELSE [read |-> TRUE, raised |-> "none", assigned |-> TRUE,
          value |-> [id |-> reads[c] + 1, kind |-> source[c].kind, body |-> source[c].body]]

\* load_<c>_data with the assignment to the cache variable lost
LoadOutcome_NoStore(c) ==
    IF cache[c] # NoneObj
    THEN [read |-> FALSE, raised |-> "none", assigned |-> FALSE, value |-> cache[c]]
    ELSE IF source[c].kind = "missing"
    THEN [read |-> TRUE, raised |-> "FileNotFoundError", assigned |-> FALSE, value |-> NoneObj]
    ELSE IF source[c].kind = "bad_syntax"
    THEN [read |-> TRUE, raised |-> "JSONDecodeError", assigned |-> FALSE, value |-> NoneObj]
    ELSE [read |-> TRUE, raised |-> "none", assigned |-> FALSE,
          value |-> [id |-> reads[c] + 1, kind |-> source[c].kind, body |-> source[c].body]]

\* One call of load_<c>_data in the current state: whether the file was
\* opened, the exception that left the function ("none": it returned),
\* whether the cache variable was assigned, and the value concerned
\* (assigned and returned).
LoadOutcome(c) ==
    IF ~CacheIsNone(c)
    THEN [read |-> FALSE, raised |-> "none", assigned |-> FALSE, value |-> cache[c]]
    ELSE IF source[c].kind = "missing"
    THEN [read |-> TRUE, raised |-> "FileNotFoundError", assigned |-> FALSE, value |-> NoneObj]
    ELSE IF source[c].kind = "bad_syntax"
    THEN [read |-> TRUE, raised |-> "JSONDecodeError", assigned |-> FALSE, value |-> NoneObj]
    ELSE [read |-> TRUE, raised |-> "none", assigned |-> TRUE,
          value |-> JsonLoad(source[c], reads[c] + 1)]

\* the effect of that call on the store and on the history variables;
\* `final` is what the cache variable refers to when the call ends
LoadStep(c, o, final) ==
    /\ o.read => reads[c] < MaxReads
    /\ cache' = [cache EXCEPT ![c] = final]
    /\ reads' = IF o.read THEN [reads EXCEPT ![c] = @ + 1] ELSE reads
    /\ writes' = IF o.assigned THEN [writes EXCEPT ![c] = @ + 1] ELSE writes
    /\ fills' = IF o.assigned /\ o.value # NoneObj THEN [fills EXCEPT ![c] = @ + 1] ELSE fills
    /\ loadsSince' = [loadsSince EXCEPT ![c] = Min(@ + 1, 2)]
    /\ held' = IF held[c] = NoneObj /\ o.raised = "none"
               THEN [held EXCEPT ![c] = o.value] ELSE held
    /\ UNCHANGED <<source, now, cleared, changes, dirty, pc, loc>>

NoArgs == [name |-> "", n |-> 0, severity |-> "", days |-> 0]
NoResult == [kind |-> "none"]
NoProbe == [op |-> "none", args |-> NoArgs, now |-> 0, epoch |-> 0, result |-> NoResult]

\* the record of a call: operation, arguments, collection loaded, and the
\* outcome of the load inside it
CallRecord(op, args, c, o, err) ==
    [op |-> op, args |-> args, coll |-> c, read |-> o.read,
     raised |-> IF o.raised # "none" THEN o.raised ELSE err,
     ret |-> o.value]

\* the cache variable after the load: assigned, or as it was
AfterLoad(c, o) == IF o.assigned THEN o.value ELSE cache[c]

LoadCall(op, c) ==
    LET o == LoadOutcome(c) IN
    /\ LoadStep(c, o, AfterLoad(c, o))
    /\ last' = CallRecord(op, NoArgs, c, o, "none")
    /\ result' = NoResult
    /\ UNCHANGED probe

load_jira_data == LoadCall("load_jira_data", "jira")
load_zephyr_data == LoadCall("load_zephyr_data", "zephyr")
load_incident_data == LoadCall("load_incident_data", "incident")

\* clear_cache with `_incident_cache = None` forgotten
ClearedCache_KeepsIncident == [c \in Coll |-> IF c = "incident" THEN cache[c] ELSE NoneObj]

\* the three cache variables after clear_cache
ClearedCache == [c \in Coll |-> NoneObj]

clear_cache ==
    /\ cache' = ClearedCache
    /\ fills' = [c \in Coll |-> 0]
    /\ loadsSince' = [c \in Coll |-> 0]
    /\ held' = [c \in Coll |-> NoneObj]
    /\ cleared' = TRUE
    /\ last' = [op |-> "clear_cache", args |-> NoArgs, coll |-> "none", read |-> FALSE,
                raised |-> "none", ret |-> NoneObj]
    /\ result' = NoResult
    /\ UNCHANGED <<source, now, reads, writes, changes, dirty, probe, pc, loc>>

(***************************************************************************)
(* The environment: the backing files may be rewritten and time passes.   *)
(***************************************************************************)
SourceChanges(c, f) ==
    /\ changes < MaxChanges
    /\ f # source[c]
    /\ source' = [source EXCEPT ![c] = f]
    /\ changes' = changes + 1
    /\ dirty' = IF reads[c] > 0 THEN [dirty EXCEPT ![c] = TRUE] ELSE dirty
    /\ UNCHANGED <<cache, now, reads, writes, fills, loadsSince, held, cleared,
                   last, result, probe, pc, loc>>

Tick ==
    /\ now < StartInstant + MaxDays * MinutesPerDay
    /\ now' = now + MinutesPerDay
    /\ UNCHANGED <<source, cache, reads, writes, fills, loadsSince, held, cleared,
                   changes, dirty, last, result, probe, pc, loc>>

(***************************************************************************)
(* Tool calls.  A tool first calls load_<c>_data(); an exception of the   *)
(* load leaves the tool with no result.  Then it indexes the structure:   *)
(* None is not subscriptable (TypeError), an object without the           *)
(* collection key gives KeyError.                                          *)
(***************************************************************************)
\* an omitted optional argument (Python's None)
NoName == "<None>"

\* `if sprint_name:` -- None and the empty string are both false
Truthy(name) == name # NoName /\ name # ""

Raised(err) == [raised |-> err, result |-> NoResult]
Returned(r) == [raised |-> "none", result |-> r]

\* data = load_<c>_data(); items = data[key]; then the tool's own code
ToolOutcome(o, Body(_)) ==
    IF o.raised # "none" THEN Raised(o.raised)
    ELSE IF o.value.kind = "none" THEN Raised("TypeError")
    ELSE IF o.value.kind = "object" THEN Raised("KeyError")
    ELSE Body(o.value.body)

\* an earlier call is remembered (once) where the specification asks for it
Remember(op, args, out) ==
    \/ UNCHANGED probe
    \/ /\ probe = NoProbe
       /\ probe' = [op |-> op, args |-> args, now |-> now, epoch |-> changes,
                    result |-> [raised |-> out.raised, value |-> out.result]]

RECURSIVE Reversed(_)
Reversed(items) == IF items = <<>> THEN <<>> ELSE Append(Reversed(Tail(items)), Head(items))

\* a tool body that reorders in place the list it was handed
ToolLeaves_Reorders(items) == Reversed(items)

\* a tool body that removes the first element of the list it was handed
ToolLeaves_Pops(items) == IF items = <<>> THEN items ELSE Tail(items)

\* The list a tool was handed, as the tool leaves it: the tools build new
\* lists and mappings and assign to none of the loaded ones.
ToolLeaves(items) == items

\* the cache variable after a tool call: the loaded object (same identity),
\* its list as the tool left it
AfterTool(c, o) ==
    LET obj == AfterLoad(c, o) IN
    IF o.raised = "none" /\ obj.kind = "data"
    THEN [obj EXCEPT !.body = ToolLeaves(obj.body)]
    ELSE obj

ToolCall(op, args, c, Body(_)) ==
    LET o == LoadOutcome(c)
        out == ToolOutcome(o, Body)
    IN  /\ LoadStep(c, o, AfterTool(c, o))
        /\ last' = CallRecord(op, args, c, o, out.raised)
        /\ result' = out.result
        /\ Remember(op, args, out)

(***************************************************************************)
(* Delivery analysis: src/src/tools/jira_tools.py and the SprintMetrics   *)
(* model of src/src/models/jira.py.                                        *)
(***************************************************************************)
\* the velocity cut off after two decimals instead of rounded
MetricsVelocity_Floor(sprint) ==
    IF sprint.planned_points > 0
    THEN (sprint.completed_points * 10000) \div sprint.planned_points
    ELSE 0

\* velocity as get_sprint_metrics computes and rounds it, in hundredths
MetricsVelocity(sprint) ==
    IF sprint.planned_points > 0
    THEN Round2(sprint.completed_points * 100, sprint.planned_points)
    ELSE 0

\* velocity as get_velocity_trend computes and rounds it, in hundredths
TrendVelocity(sprint) ==
    IF sprint.planned_points > 0
    THEN Round2(sprint.completed_points * 100, sprint.planned_points)
    ELSE 0

\* SprintMetrics.velocity, in hundredths
SprintMetricsVelocity(sprint) ==
    IF sprint.planned_points = 0 THEN 0
    ELSE Round2(sprint.completed_points * 100, sprint.planned_points)

\* next((x for x in items if x[key] == name), None): the index, 0 for None
FirstNamed(items, Name(_), name) ==
    LET ix == SelectIdx(items, LAMBDA x : Name(x) = name, 1)
    IN  IF ix = <<>> THEN 0 ELSE ix[1]

SprintNameOf(s) == s.sprint_name
CycleNameOf(c) == c.cycle_name

\* JiraTicket.is_completed
is_completed(t) == t.status = "done" /\ t.completed_at

\* the tickets the ticket model calls completed
CompletedTickets_IsCompleted(tickets) == SelectSeq(tickets, is_completed)

\* completed = [t for t in tickets if t["status"] == "done"]
CompletedTickets(tickets) == SelectSeq(tickets, LAMBDA t : t.status = "done")

\* the metrics mapping of one sprint
SprintMetricsOf(sprint) ==
    LET tickets == sprint.tickets IN
    [kind |-> "sprint_metrics",
     sprint_name |-> sprint.sprint_name,
     planned_points |-> sprint.planned_points,
     completed_points |-> sprint.completed_points,
     velocity |-> MetricsVelocity(sprint),
     total_tickets |-> Len(tickets),
     completed_tickets |-> Len(CompletedTickets(tickets)),
     in_progress_tickets |-> Count(tickets, LAMBDA t : t.status = "in_progress"),
     blocked_tickets |-> Count(tickets, LAMBDA t : t.status = "blocked"),
     date_range |-> <<sprint.start_date, sprint.end_date>>]

GetSprintMetrics(sprints, sprint_name) ==
    IF Truthy(sprint_name)
    THEN LET i == FirstNamed(sprints, SprintNameOf, sprint_name) IN
         IF i = 0
         THEN Returned([kind |-> "error", error |-> <<"Sprint", sprint_name, "not found">>])
         ELSE Returned(SprintMetricsOf(sprints[i]))
    ELSE IF sprints = <<>> THEN Raised("IndexError")
    ELSE Returned(SprintMetricsOf(sprints[Len(sprints)]))

\* the slice items[-n:]
LastN(items, n) ==
    LET L == Len(items)
        start == IF -n < 0 THEN (IF L - n > 0 THEN L - n ELSE 0) ELSE Min(-n, L)
    IN  SubSeq(items, start + 1, L)

\* min(entries, key=velocity) and max(...): the first entry with the least
\* (greatest) velocity
FirstWithVelocity(entries, v) == entries[SelectIdx(entries, LAMBDA e : e.velocity = v, 1)[1]]
LowestVelocity(entries) ==
    FirstWithVelocity(entries,
        CHOOSE v \in {entries[i].velocity : i \in 1..Len(entries)} :
            \A i \in 1..Len(entries) : v <= entries[i].velocity)
HighestVelocity(entries) ==
    FirstWithVelocity(entries,
        CHOOSE v \in {entries[i].velocity : i \in 1..Len(entries)} :
            \A i \in 1..Len(entries) : v >= entries[i].velocity)

\* (last - first) / first * 100 as the fraction num/den, 0/1 when first is 0
VelocityChange(velocities) ==
    LET first == velocities[1]
        lastv == velocities[Len(velocities)]
    IN  IF first > 0 THEN [num |-> (lastv - first) * 100, den |-> first]
        ELSE [num |-> 0, den |-> 1]

\* the trend label of a change num/den (den > 0)
TrendOf(ch) ==
    IF ch.num > 5 * ch.den THEN "improving"
    ELSE IF ch.num < -5 * ch.den THEN "declining"
    ELSE "stable"

GetVelocityTrend(all, num_sprints) ==
    LET sprints == LastN(all, num_sprints)
        sprint_velocities ==
            [i \in 1..Len(sprints) |->
                [sprint_name |-> sprints[i].sprint_name, velocity |-> TrendVelocity(sprints[i])]]
        velocities == [i \in 1..Len(sprints) |-> sprint_velocities[i].velocity]
        avg == IF velocities # <<>> THEN [num |-> SumSeq(velocities), den |-> Len(velocities)]
               ELSE [num |-> 0, den |-> 1]
        change == IF Len(velocities) >= 2 THEN VelocityChange(velocities)
                  ELSE [num |-> 0, den |-> 1]
        trend == IF Len(velocities) >= 2 THEN TrendOf(change) ELSE "insufficient_data"
    IN  IF sprint_velocities = <<>> THEN Raised("ValueError")
        ELSE Returned(
            [kind |-> "velocity_trend",
             sprints |-> sprint_velocities,
             average_velocity |-> RoundHalfEven(avg.num, avg.den),
             velocity_change |-> RoundHalfEven(change.num * 100, change.den),
             trend |-> trend,
             lowest_velocity_sprint |-> LowestVelocity(sprint_velocities),
             highest_velocity_sprint |-> HighestVelocity(sprint_velocities),
             analysis_period |-> num_sprints])

\* the sprint_name and cycle_name arguments tried: omitted, empty, stored
\* names, an unknown name
SprintNameArgs == {NoName, "", "Sprint 1", "Sprint 2", "Sprint 9"}
CycleNameArgs == {NoName, "", "Cycle 1", "Cycle 9"}
NumArgs == 0..MaxNum

ArgName(name) == [NoArgs EXCEPT !.name = name]
ArgNum(n) == [NoArgs EXCEPT !.n = n]

get_sprint_metrics(sprint_name) ==
    ToolCall("get_sprint_metrics", ArgName(sprint_name), "jira",
             LAMBDA sprints : GetSprintMetrics(sprints, sprint_name))

get_velocity_trend(num_sprints) ==
    ToolCall("get_velocity_trend", ArgNum(num_sprints), "jira",
             LAMBDA sprints : GetVelocityTrend(sprints, num_sprints))

\* SprintMetrics(**sprint).velocity for a sprint of the loaded collection
SprintMetrics_velocity ==
    /\ cache["jira"].kind = "data"
    /\ \E i \in 1..Len(cache["jira"].body) :
          LET sprint == cache["jira"].body[i] IN
          /\ result' = [kind |-> "model_velocity", sprint_name |-> sprint.sprint_name,
                        velocity |-> SprintMetricsVelocity(sprint)]
          /\ last' = [op |-> "SprintMetrics.velocity", args |-> ArgName(sprint.sprint_name),
                      coll |-> "none", read |-> FALSE, raised |-> "none", ret |-> NoneObj]
    /\ UNCHANGED <<source, cache, now, reads, writes, fills, loadsSince, held, cleared,
                   changes, dirty, probe, pc, loc>>

(***************************************************************************)
(* Test quality analysis: src/src/tools/zephyr_tools.py.  A threshold is  *)
(* given in hundredths (0.7 is 70).                                        *)
(***************************************************************************)
\* the metrics of a cycle with every execution that did not pass counted as
\* failed
PassRateOf_FailedIsNotPassed(cycle) ==
    LET executions == cycle.executions
        total == Len(executions)
        passed == Count(executions, LAMBDA e : e.status = "passed")
    IN  [kind |-> "pass_rate",
         cycle_name |-> cycle.cycle_name,
         total_tests |-> total,
         passed |-> passed,
         failed |-> total - passed,
         blocked |-> Count(executions, LAMBDA e : e.status = "blocked"),
         skipped |-> Count(executions, LAMBDA e : e.status = "skipped"),
         pass_rate |-> IF total > 0 THEN Round2(passed * 100, total) ELSE 0,
         date_range |-> <<cycle.start_date, cycle.end_date>>]

PassRateOf(cycle) ==
    LET executions == cycle.executions
        total == Len(executions)
        passed == Count(executions, LAMBDA e : e.status = "passed")
    IN  [kind |-> "pass_rate",
         cycle_name |-> cycle.cycle_name,
         total_tests |-> total,
         passed |-> passed,
         failed |-> Count(executions, LAMBDA e : e.status = "failed"),
         blocked |-> Count(executions, LAMBDA e : e.status = "blocked"),
         skipped |-> Count(executions, LAMBDA e : e.status = "skipped"),
         pass_rate |-> IF total > 0 THEN Round2(passed * 100, total) ELSE 0,
         date_range |-> <<cycle.start_date, cycle.end_date>>]

GetTestPassRate(cycles, cycle_name) ==
    IF Truthy(cycle_name)
    THEN LET i == FirstNamed(cycles, CycleNameOf, cycle_name) IN
         IF i = 0
         THEN Returned([kind |-> "error", error |-> <<"Test cycle", cycle_name, "not found">>])
         ELSE Returned(PassRateOf(cycles[i]))
    ELSE IF cycles = <<>> THEN Raised("IndexError")
    ELSE Returned(PassRateOf(cycles[Len(cycles)]))

RECURSIVE Flatten(_)
\* the executions of all cycles, in stored order
Flatten(cycles) ==
    IF cycles = <<>> THEN <<>> ELSE Head(cycles).executions \o Flatten(Tail(cycles))

RECURSIVE FirstSeen(_, _)
\* the keys of test_results in insertion order: each test_id where it is
\* first met
FirstSeen(execs, seen) ==
    IF execs = <<>> THEN <<>>
    ELSE IF Head(execs).test_id \in seen THEN FirstSeen(Tail(execs), seen)
    ELSE <<Head(execs).test_id>> \o FirstSeen(Tail(execs), seen \cup {Head(execs).test_id})

\* test_results[test_id] after the scan
TestResults(execs, id) ==
    LET mine == Filter(execs, LAMBDA e : e.test_id = id) IN
    [test_id |-> id,
     test_name |-> mine[Len(mine)].test_name,
     total |-> Len(mine),
     passed |-> Count(mine, LAMBDA e : e.status = "passed")]

\* the flaky test with a pass rate equal to the threshold let through
IsFlaky_AtMostThreshold(r, threshold, min_executions) ==
    /\ r.total >= min_executions
    /\ 0 < r.passed
    /\ r.passed * 100 <= threshold * r.total

\* `if results["total"] >= min_executions` and `if 0 < pass_rate < threshold`
IsFlaky(r, threshold, min_executions) ==
    /\ r.total >= min_executions
    /\ LET rate == IF r.total > 0 THEN [num |-> r.passed, den |-> r.total]
                   ELSE [num |-> 0, den |-> 1]
       IN  /\ 0 < rate.num
           /\ rate.num * 100 < threshold * rate.den

FlakyEntry(r) ==
    [test_id |-> r.test_id, test_name |-> r.test_name, executions |-> r.total,
     passed |-> r.passed, failed |-> r.total - r.passed,
     pass_rate |-> Round2(r.passed * 100, r.total)]

RECURSIVE InsertByRate_BeforeEqual(_, _)
\* e put in front of the entries of the same pass_rate
InsertByRate_BeforeEqual(sorted, e) ==
    IF sorted = <<>> THEN <<e>>
    ELSE IF Head(sorted).pass_rate < e.pass_rate
    THEN <<Head(sorted)>> \o InsertByRate_BeforeEqual(Tail(sorted), e)
    ELSE <<e>> \o sorted

RECURSIVE InsertByRate(_, _)
\* e put behind every entry whose pass_rate is not greater
InsertByRate(sorted, e) ==
    IF sorted = <<>> THEN <<e>>
    ELSE IF Head(sorted).pass_rate <= e.pass_rate
    THEN <<Head(sorted)>> \o InsertByRate(Tail(sorted), e)
    ELSE <<e>> \o sorted

RECURSIVE SortByRate(_)
\* list.sort(key=pass_rate): ascending and stable
SortByRate(entries) ==
    IF entries = <<>> THEN <<>>
    ELSE InsertByRate(SortByRate(SubSeq(entries, 1, Len(entries) - 1)), entries[Len(entries)])

GetFlakyTests(cycles, threshold, min_executions) ==
    LET execs == Flatten(cycles)
        ids == FirstSeen(execs, {})
        all == [k \in 1..Len(ids) |-> TestResults(execs, ids[k])]
        flaky == Filter(all, LAMBDA r : IsFlaky(r, threshold, min_executions))
        flaky_tests == SortByRate([k \in 1..Len(flaky) |-> FlakyEntry(flaky[k])])
    IN  Returned(
            [kind |-> "flaky_tests",
             flaky_tests |-> flaky_tests,
             total_flaky_tests |-> Len(flaky_tests),
             threshold |-> threshold,
             min_executions |-> min_executions,
             analysis_period |-> Len(cycles)])

\* the threshold (hundredths) and min_executions arguments tried
ThresholdArgs == {50, 70, 150}
MinExecutionArgs == {0, 2, 3}

get_test_pass_rate(cycle_name) ==
    ToolCall("get_test_pass_rate", ArgName(cycle_name), "zephyr",
             LAMBDA cycles : GetTestPassRate(cycles, cycle_name))

get_flaky_tests(threshold, min_executions) ==
    ToolCall("get_flaky_tests", [NoArgs EXCEPT !.n = min_executions, !.days = threshold],
             "zephyr",
             LAMBDA cycles : GetFlakyTests(cycles, threshold, min_executions))

\* the properties of TestCycleMetrics(**cycle)
TestCycleMetricsOf(cycle) ==
    LET executions == cycle.executions
        total_tests == Len(executions)
        passed == Count(executions, LAMBDA test : test.status = "passed")
    IN  [kind |-> "model_pass_rate",
         cycle_name |-> cycle.cycle_name,
         total_tests |-> total_tests,
         passed |-> passed,
         failed |-> Count(executions, LAMBDA test : test.status = "failed"),
         blocked |-> Count(executions, LAMBDA test : test.status = "blocked"),
         skipped |-> Count(executions, LAMBDA test : test.status = "skipped"),
         pass_rate |-> IF total_tests = 0 THEN 0 ELSE Round2(passed * 100, total_tests)]

\* TestCycleMetrics(**cycle) for a cycle of the loaded collection
TestCycleMetrics_pass_rate ==
    /\ cache["zephyr"].kind = "data"
    /\ \E i \in 1..Len(cache["zephyr"].body) :
          LET cycle == cache["zephyr"].body[i] IN
          /\ result' = TestCycleMetricsOf(cycle)
          /\ last' = [op |-> "TestCycleMetrics", args |-> ArgName(cycle.cycle_name),
                      coll |-> "none", read |-> FALSE, raised |-> "none", ret |-> NoneObj]
    /\ UNCHANGED <<source, cache, now, reads, writes, fills, loadsSince, held, cleared,
                   changes, dirty, probe, pc, loc>>

(***************************************************************************)
(* Incident analysis: src/src/tools/incident_tools.py.                    *)
(***************************************************************************)
\* str.lower() on the severity arguments tried
Lower(s) ==
    CASE s = "CRITICAL" -> "critical"
      [] s = "High" -> "high"
      [] OTHER -> s

\* a breakdown that names all four severities, with 0 for the absent ones
BySeverity_AllFour(recent_incidents) ==
    [s \in {"critical", "high", "medium", "low"} |->
        Count(recent_incidents, LAMBDA inc : inc.severity = s)]

\* by_severity: a defaultdict(int) incremented once per incident
BySeverity(recent_incidents) ==
    [s \in {recent_incidents[i].severity : i \in 1..Len(recent_incidents)} |->
        Count(recent_incidents, LAMBDA inc : inc.severity = s)]

GetIncidentSummary(incidents, clock, severity, days) ==
    LET cutoff_date == clock - days * MinutesPerDay
        in_window == Filter(incidents, LAMBDA inc : inc.reported_at >= cutoff_date)
        recent_incidents ==
            IF Truthy(severity)
            THEN Filter(in_window, LAMBDA inc : inc.severity = Lower(severity))
            ELSE in_window
        total == Len(recent_incidents)
        resolved == Count(recent_incidents, LAMBDA inc : inc.resolved_at # -1)
    IN  Returned(
            [kind |-> "incident_summary",
             total_incidents |-> total,
             by_severity |-> BySeverity(recent_incidents),
             resolved |-> resolved,
             unresolved |-> total - resolved,
             affected_users_total |->
                 SumSeq([i \in 1..total |-> recent_incidents[i].affected_users]),
             time_period |-> days,
             severity_filter |-> IF Truthy(severity) THEN severity ELSE "all",
             incidents |->
                 [i \in 1..total |->
                     [id |-> recent_incidents[i].id,
                      title |-> recent_incidents[i].title,
                      severity |-> recent_incidents[i].severity,
                      reported_at |-> recent_incidents[i].reported_at,
                      resolved |-> recent_incidents[i].resolved_at # -1,
                      affected_users |-> recent_incidents[i].affected_users]]])

\* the severity and days arguments tried
SeverityArgs == {NoName, "critical", "CRITICAL", "High"}
DaysArgs == {0, 10, 30}

get_incident_summary(severity, days) ==
    ToolCall("get_incident_summary", [NoArgs EXCEPT !.severity = severity, !.days = days],
             "incident",
             LAMBDA incidents : GetIncidentSummary(incidents, now, severity, days))

\* (resolved - reported).total_seconds() / 3600 as the fraction minutes / 60
MinutesPerHour == 60

\* severity_times[severity]: the minutes to resolve of the resolved incidents
\* of that severity, in stored order
SeverityTimes(incidents, severity) ==
    LET mine == Filter(incidents,
                       LAMBDA inc : inc.resolved_at # -1 /\ inc.severity = severity)
    IN  [i \in 1..Len(mine) |-> mine[i].resolved_at - mine[i].reported_at]

\* a mean time in hours, rounded to two decimals, in hundredths
MeanHours(times) ==
    IF times # <<>> THEN Round2(SumSeq(times), MinutesPerHour * Len(times)) ELSE 0

\* the minutes to resolve of every resolved incident, in stored order
AllTimes(incidents) ==
    LET resolved == Filter(incidents, LAMBDA inc : inc.resolved_at # -1)
    IN  [i \in 1..Len(resolved) |-> resolved[i].resolved_at - resolved[i].reported_at]

\* the severities of all incidents, resolved or not
ResolvedSeverities_All(incidents) ==
    {incidents[i].severity : i \in 1..Len(incidents)}

\* the severities that are keys of severity_times
ResolvedSeverities(incidents) ==
    {incidents[i].severity : i \in {j \in 1..Len(incidents) : incidents[j].resolved_at # -1}}

\* an overall figure taken as the plain mean of the per-severity means
OverallMttr_MeanOfMeans(incidents) ==
    LET keys == ResolvedSeverities(incidents)
        means == [s \in keys |-> MeanHours(SeverityTimes(incidents, s))]
        RECURSIVE Total(_)
        Total(S) == IF S = {} THEN 0
                    ELSE LET x == CHOOSE y \in S : TRUE IN means[x] + Total(S \ {x})
    IN  IF keys = {} THEN 0 ELSE RoundHalfEven(Total(keys), Cardinality(keys))

\* round(sum(all_times) / len(all_times), 2) if all_times else 0.0
OverallMttr(incidents) == MeanHours(AllTimes(incidents))

GetMttrBySeverity(incidents) ==
    LET keys == ResolvedSeverities(incidents)
    IN  Returned(
            [kind |-> "mttr",
             mttr_by_severity |-> [s \in keys |-> MeanHours(SeverityTimes(incidents, s))],
             overall_mttr |-> OverallMttr(incidents),
             resolved_incidents_by_severity |->
                 [s \in keys |-> Len(SeverityTimes(incidents, s))],
             total_resolved_incidents |-> Len(AllTimes(incidents))])

get_mttr_by_severity ==
    ToolCall("get_mttr_by_severity", NoArgs, "incident",
             LAMBDA incidents : GetMttrBySeverity(incidents))

(***************************************************************************)
(* Report validation: src/src/tools/validator_tools.py.  A text is a      *)
(* sequence of characters.  A report is a text `head` followed by         *)
(* `filler` further words " lorem", which hold no capital, no digit and   *)
(* none of the words the validator looks for.                             *)
(***************************************************************************)
UpperCase == <<"A", "B", "C", "D", "E", "F", "G", "H", "I", "J", "K", "L", "M", "N", "O", "P", "Q", "R", "S", "T", "U", "V", "W", "X", "Y", "Z">>
LowerCase == <<"a", "b", "c", "d", "e", "f", "g", "h", "i", "j", "k", "l", "m", "n", "o", "p", "q", "r", "s", "t", "u", "v", "w", "x", "y", "z">>
Digits == {"0", "1", "2", "3", "4", "5", "6", "7", "8", "9"}
Space == " "
Newline == "\n"

\* the characters str.split() separates words at, as far as reports hold them
Whitespace == {Space, Newline}

\* the words the validator looks for, as texts
Chars ==
    [jira |-> <<"j", "i", "r", "a">>,
     sprint |-> <<"s", "p", "r", "i", "n", "t">>,
     velocity |-> <<"v", "e", "l", "o", "c", "i", "t", "y">>,
     zephyr |-> <<"z", "e", "p", "h", "y", "r">>,
     test |-> <<"t", "e", "s", "t">>,
     incident |-> <<"i", "n", "c", "i", "d", "e", "n", "t">>,
     problem |-> <<"p", "r", "o", "b", "l", "e", "m">>,
     summary |-> <<"s", "u", "m", "m", "a", "r", "y">>,
     recommend |-> <<"r", "e", "c", "o", "m", "m", "e", "n", "d">>,
     suggest |-> <<"s", "u", "g", "g", "e", "s", "t">>,
     issue |-> <<"i", "s", "s", "u", "e">>,
     concern |-> <<"c", "o", "n", "c", "e", "r", "n">>,
     decline |-> <<"d", "e", "c", "l", "i", "n", "e">>,
     failure |-> <<"f", "a", "i", "l", "u", "r", "e">>,
     should |-> <<"s", "h", "o", "u", "l", "d">>,
     action |-> <<"a", "c", "t", "i", "o", "n">>,
     executive_summary |-> <<"e", "x", "e", "c", "u", "t", "i", "v", "e", " ", "s", "u", "m", "m", "a", "r", "y">>]

\* str.lower() of one character
ToLower(ch) ==
    IF \E i \in 1..Len(UpperCase) : UpperCase[i] = ch
    THEN LowerCase[CHOOSE i \in 1..Len(UpperCase) : UpperCase[i] = ch]
    ELSE ch

\* text.lower()
StrLower(text) == [i \in 1..Len(text) |-> ToLower(text[i])]

\* word in text
StrIn(word, text) ==
    \E off \in 0..(Len(text) - Len(word)) : \A k \in 1..Len(word) : text[off + k] = word[k]

\* len(text.split()): the maximal runs of characters other than whitespace
WordStarts(text) ==
    {i \in 1..Len(text) : text[i] \notin Whitespace /\ (i = 1 \/ text[i - 1] \in Whitespace)}

SplitLen(text) == Cardinality(WordStarts(text))

required_sections ==
    <<"jira", "sprint", "velocity", "zephyr", "test", "incident", "problem", "summary">>

MinWords == 100
MaxWords == 2000

TooShort == "Report is too short (less than 100 words)"
VeryLong == "Report is very long (over 2000 words) - consider condensing"
NoNumbers == "Report should include specific metrics and numbers"
NoAdvice == "Report should include actionable recommendations"

\* the sections whose name the lowered report does not hold, in the order
\* of required_sections
MissingSections(report_lower) ==
    SelectSeq(required_sections, LAMBDA section : ~StrIn(Chars[section], report_lower))

LengthErrors(word_count) == IF word_count < MinWords THEN <<TooShort>> ELSE <<>>

\* the elif branch: only when the report is not too short
LengthWarnings(word_count) ==
    IF word_count < MinWords THEN <<>>
    ELSE IF word_count > MaxWords THEN <<VeryLong>> ELSE <<>>

\* validity decided by the errors alone
Valid_ErrorsOnly(errors, missing_sections) == Len(errors) = 0

\* valid = len(errors) == 0 and len(missing_sections) == 0
Valid(errors, missing_sections) == Len(errors) = 0 /\ Len(missing_sections) = 0

ValidateReportFormat(report) ==
    LET report_lower == StrLower(report.head)
        missing_sections == MissingSections(report_lower)
        word_count == SplitLen(report.head) + report.filler
        errors == LengthErrors(word_count)
        warnings ==
            LengthWarnings(word_count)
            \o (IF \E i \in 1..Len(report.head) : report.head[i] \in Digits
                THEN <<>> ELSE <<NoNumbers>>)
            \o (IF ~StrIn(Chars["recommend"], report_lower)
                   /\ ~StrIn(Chars["suggest"], report_lower)
                THEN <<NoAdvice>> ELSE <<>>)
    IN  [kind |-> "validation",
         valid |-> Valid(errors, missing_sections),
         missing_sections |-> missing_sections,
         errors |-> errors,
         warnings |-> warnings,
         word_count |-> word_count]

\* the tool reads no collection
validate_report_format(report) ==
    /\ result' = ValidateReportFormat(report)
    /\ last' = [op |-> "validate_report_format", args |-> [report |-> report],
                coll |-> "none", read |-> FALSE, raised |-> "none", ret |-> NoneObj]
    /\ Remember("validate_report_format", [report |-> report],
                Returned(ValidateReportFormat(report)))
    /\ UNCHANGED <<source, cache, now, reads, writes, fills, loadsSince, held, cleared,
                   changes, dirty, pc, loc>>

\* any(word.isdigit() for word in text.split())
HasNumbers(text) ==
    \E i \in WordStarts(text) :
        \E j \in i..Len(text) :
            /\ j = Len(text) \/ text[j + 1] \in Whitespace
            /\ \A k \in i..j : text[k] \in Digits

RECURSIVE CountFrom(_, _, _)
\* text.count(sub) from position i on: occurrences that do not overlap,
\* found from the left
CountFrom(text, sub, i) ==
    IF i + Len(sub) - 1 > Len(text) THEN 0
    ELSE IF \A k \in 1..Len(sub) : text[i + k - 1] = sub[k]
         THEN 1 + CountFrom(text, sub, i + Len(sub))
         ELSE CountFrom(text, sub, i + 1)

StrCount(text, sub) == CountFrom(text, sub, 1)

problem_keywords == <<"problem", "issue", "concern", "decline", "failure">>
recommendation_keywords == <<"recommend", "suggest", "should", "action">>
source_keywords == <<"jira", "sprint", "zephyr", "test", "incident">>

\* all(keyword in report_lower for keyword in keywords)
AnyKeyword_Every(keywords, report_lower) ==
    \A i \in 1..Len(keywords) : StrIn(Chars[keywords[i]], report_lower)

\* any(keyword in report_lower for keyword in keywords)
AnyKeyword(keywords, report_lower) ==
    \E i \in 1..Len(keywords) : StrIn(Chars[keywords[i]], report_lower)

\* sum([...]) of the five membership tests
SourcesMentioned(report_lower) ==
    Cardinality({i \in 1..Len(source_keywords) : StrIn(Chars[source_keywords[i]], report_lower)})

\* sources_mentioned >= 3
EnoughSources(sources_mentioned) == sources_mentioned >= 3

\* the grades with every limit exclusive
score_to_grade_Above(score) ==
    IF score > 90 THEN "A"
    ELSE IF score > 80 THEN "B"
    ELSE IF score > 70 THEN "C"
    ELSE IF score > 60 THEN "D"
    ELSE "F"

\* _score_to_grade
score_to_grade(score) ==
    IF score >= 90 THEN "A"
    ELSE IF score >= 80 THEN "B"
    ELSE IF score >= 70 THEN "C"
    ELSE IF score >= 60 THEN "D"
    ELSE "F"

\* the six checks in the order of the code: <<met, strength, improvement
\* area, recommendation, penalty>>
QualityChecks(report) ==
    LET report_text == report.head
        report_lower == StrLower(report_text)
        has_percentages == \E i \in 1..Len(report_text) : report_text[i] = "%"
        has_numbers == HasNumbers(report_text)
        has_sections == StrCount(report_text, <<Newline, Newline>>) >= 2
    IN  << <<StrIn(Chars["executive_summary"], report_lower)
               \/ StrIn(Chars["summary"], report_lower),
             "Includes executive summary", "Missing executive summary",
             "Add an executive summary at the beginning", 20>>,
           <<has_percentages /\ has_numbers,
             "Includes specific metrics and data points", "Lacks specific metrics",
             "Include specific percentages, counts, and measurements", 15>>,
           <<AnyKeyword(problem_keywords, report_lower),
             "Identifies specific problems", "Doesn't clearly identify problems",
             "Explicitly call out problem areas and quality concerns", 15>>,
           <<AnyKeyword(recommendation_keywords, report_lower),
             "Provides actionable recommendations", "Lacks actionable recommendations",
             "Add specific recommendations for addressing identified issues", 20>>,
           <<EnoughSources(SourcesMentioned(report_lower)),
             "Covers multiple data sources", "Limited data source coverage",
             "Ensure analysis covers Jira, Zephyr, and Incident data", 15>>,
           <<has_sections,
             "Well-structured with clear sections", "Poor structure and organization",
             "Organize report into clear sections", 15>> >>

RECURSIVE Collect(_, _, _)
\* the entries at position `field` of the checks that are met (or not met),
\* in order
Collect(checks, met, field) ==
    IF checks = <<>> THEN <<>>
    ELSE (IF Head(checks)[1] = met THEN <<Head(checks)[field]>> ELSE <<>>)
         \o Collect(Tail(checks), met, field)

CheckReportQuality(report) ==
    LET checks == QualityChecks(report)
        score == Max(0, 100 - SumSeq(Collect(checks, FALSE, 5)))
    IN  [kind |-> "quality",
         quality_score |-> score,
         grade |-> score_to_grade(score),
         strengths |-> Collect(checks, TRUE, 2),
         improvement_areas |-> Collect(checks, FALSE, 3),
         recommendations |-> Collect(checks, FALSE, 4),
         passes_quality_check |-> score >= 70]

\* the tool reads no collection
check_report_quality(report) ==
    /\ result' = CheckReportQuality(report)
    /\ last' = [op |-> "check_report_quality", args |-> [report |-> report],
                coll |-> "none", read |-> FALSE, raised |-> "none", ret |-> NoneObj]
    /\ Remember("check_report_quality", [report |-> report],
                Returned(CheckReportQuality(report)))
    /\ UNCHANGED <<source, cache, now, reads, writes, fills, loadsSince, held, cleared,
                   changes, dirty, pc, loc>>

(***************************************************************************)
(* The store specification: one caller at a time makes any call, while    *)
(* the environment rewrites files and time passes.                         *)
(***************************************************************************)
ProbeOff == [NoProbe EXCEPT !.op = "off"]

NoCall == [op |-> "none", args |-> NoArgs, coll |-> "none", read |-> FALSE,
           raised |-> "none", ret |-> NoneObj]

\* a thread outside load_<c>_data: the collection it loads, what json.load
\* gave it, what the call returned and the exception that ended it
IdleThread == [coll |-> "none", value |-> NoneObj, ret |-> NoneObj, raised |-> "none"]

\* the state of a fresh process, with `files` on disk
Fresh(files) ==
    /\ source = files
    /\ cache = [c \in Coll |-> NoneObj]
    /\ now = StartInstant
    /\ reads = [c \in Coll |-> 0]
    /\ writes = [c \in Coll |-> 0]
    /\ fills = [c \in Coll |-> 0]
    /\ loadsSince = [c \in Coll |-> 0]
    /\ held = [c \in Coll |-> NoneObj]
    /\ cleared = FALSE
    /\ changes = 0
    /\ dirty = [c \in Coll |-> FALSE]
    /\ last = NoCall
    /\ result = NoResult
    /\ pc = [t \in Threads |-> "idle"]
    /\ loc = [t \in Threads |-> IdleThread]

\* the files the repository ships
ShippedFiles ==
    [c \in Coll |->
        CASE c = "jira" -> DataFile(JiraA)
          [] c = "zephyr" -> DataFile(ZephyrA)
          [] c = "incident" -> DataFile(IncidentA)]

Init == Fresh(ShippedFiles) /\ probe = ProbeOff

\* json.load does not look at the shape of what it parsed: to the load
\* functions a JSON object without the collection key is data like any other
LoadFiles(c) == StoreFiles(c) \ {ObjectFile}

Next ==
    \/ load_jira_data
    \/ load_zephyr_data
    \/ load_incident_data
    \/ clear_cache
    \/ \E c \in Coll : \E f \in LoadFiles(c) : SourceChanges(c, f)

Spec == Init /\ [][Next]_vars

(***************************************************************************)
(* The tools specification: a fresh process in which one backing file may *)
(* be unreadable or ill shaped; the caller loads, clears and calls tools. *)
(***************************************************************************)
InitTools ==
    /\ \E c \in Coll : \E f \in StoreFiles(c) : Fresh([ShippedFiles EXCEPT ![c] = f])
    /\ probe = ProbeOff

AnyTool ==
    \/ \E name \in {NoName, "Sprint 1"} : get_sprint_metrics(name)
    \/ get_velocity_trend(2)
    \/ get_test_pass_rate(NoName)
    \/ get_flaky_tests(70, 3)
    \/ \E days \in {10, 30} : get_incident_summary(NoName, days)

NextTools ==
    \/ load_jira_data
    \/ load_zephyr_data
    \/ load_incident_data
    \/ clear_cache
    \/ AnyTool

SpecTools == InitTools /\ [][NextTools]_vars

(***************************************************************************)
(* The repeatability specification: tool calls, with one of them          *)
(* remembered, while files are rewritten, the cache is cleared and time   *)
(* passes.  A run stays with the collection it touches first.             *)
(***************************************************************************)
InitRepeat == Fresh(ShippedFiles) /\ probe = NoProbe

\* no other collection has been read or rewritten
Alone(c) == \A d \in Coll \ {c} : reads[d] = 0 /\ source[d] = ShippedFiles[d]

\* the tools of a collection, and its load function
RepeatCall(c) ==
    \/ c = "jira" /\ get_sprint_metrics(NoName)
    \/ c = "jira" /\ get_velocity_trend(2)
    \/ c = "jira" /\ load_jira_data
    \/ c = "zephyr" /\ get_flaky_tests(70, 3)
    \/ c = "zephyr" /\ get_test_pass_rate(NoName)
    \/ c = "zephyr" /\ load_zephyr_data
    \/ c = "incident" /\ get_incident_summary(NoName, 10)
    \/ c = "incident" /\ get_incident_summary("CRITICAL", 30)
    \/ c = "incident" /\ load_incident_data

NextRepeat ==
    \/ \E c \in Coll : Alone(c) /\ RepeatCall(c)
    \/ \E c \in Coll : \E f \in StoreFiles(c) : Alone(c) /\ SourceChanges(c, f)
    \/ clear_cache
    \/ Tick

SpecRepeat == InitRepeat /\ [][NextRepeat]_vars

(***************************************************************************)
(* The delivery specification: a fresh process whose delivery file holds  *)
(* any sprint sequence of up to MaxSprints sprints; the caller uses the   *)
(* two delivery tools, the SprintMetrics model and the pass-rate lookup.  *)
(***************************************************************************)
InitJira ==
    /\ \E b \in JiraBodies : Fresh([ShippedFiles EXCEPT !["jira"] = DataFile(b)])
    /\ probe = ProbeOff

NextJira ==
    \/ \E name \in SprintNameArgs : get_sprint_metrics(name)
    \/ \E n \in NumArgs : get_velocity_trend(n)
    \/ SprintMetrics_velocity
    \/ \E name \in CycleNameArgs : get_test_pass_rate(name)

SpecJira == InitJira /\ [][NextJira]_vars

(***************************************************************************)
(* The empty-sample specification: a fresh process whose files hold empty *)
(* collections, a sprint with nothing planned, cycles without executions  *)
(* or no resolved incident; the caller uses the tools that divide.        *)
(***************************************************************************)
EmptyBodies(c) ==
    CASE c = "jira" -> {<<>>, <<Sprint(1, <<0, 5>>, <<>>)>>, JiraA}
      [] c = "zephyr" ->
            {<<>>, <<Cycle(1, <<>>)>>,
             <<Cycle(1, <<Execution("T1", "passed")>>), Cycle(2, <<>>)>>, ZephyrA}
      [] c = "incident" -> {<<>>, IncidentB, IncidentA}

InitEmpty ==
    /\ \E files \in [Coll -> UNION {EmptyBodies(c) : c \in Coll}] :
          /\ \A c \in Coll : files[c] \in EmptyBodies(c)
          /\ Fresh([c \in Coll |-> DataFile(files[c])])
    /\ probe = ProbeOff

NextEmpty ==
    \/ \E n \in NumArgs : get_velocity_trend(n)
    \/ get_sprint_metrics("Sprint 1")
    \/ \E name \in {"Cycle 1", "Cycle 2"} : get_test_pass_rate(name)
    \/ get_mttr_by_severity

SpecEmpty == InitEmpty /\ [][NextEmpty]_vars

(***************************************************************************)
(* The test-quality specification: a fresh process whose test file holds  *)
(* MaxCycles cycles in which each of up to MaxTests tests has one of the  *)
(* histories below; the caller uses the two test tools and the            *)
(* TestCycleMetrics model.                                                 *)
(***************************************************************************)
\* how many tests the stored executions speak of
MaxTests == 2
\* how many cycles are stored
MaxCycles == 3

TestIds == <<"T1", "T2", "T3", "T4">>

\* the status of a test in cycle 1, 2, ...; "none" where it did not run
Histories ==
    { <<"passed", "failed", "failed">>,
      <<"failed", "passed", "failed">>,
      <<"passed", "blocked", "skipped">>,
      <<"passed", "passed", "passed">>,
      <<"failed", "failed", "failed">>,
      <<"passed", "passed", "failed">>,
      <<"none", "passed", "failed">>,
      <<"passed", "failed">>,
      <<>> }

Ran(h, k) == k <= Len(h) /\ h[k] # "none"

RECURSIVE CycleExecutions(_, _, _)
\* the executions of cycle k for the tests i..1, the highest test first
CycleExecutions(hist, k, i) ==
    IF i = 0 THEN <<>>
    ELSE (IF Ran(hist[i], k) THEN <<Execution(TestIds[i], hist[i][k])>> ELSE <<>>)
         \o CycleExecutions(hist, k, i - 1)

\* the stored cycles for the histories hist[1..n]
CyclesOf(hist) ==
    [k \in 1..MaxCycles |-> Cycle(k, CycleExecutions(hist, k, Len(hist)))]

ZephyrBodies == { CyclesOf(hist) : hist \in [1..MaxTests -> Histories] }

InitZephyr ==
    /\ \E b \in ZephyrBodies : Fresh([ShippedFiles EXCEPT !["zephyr"] = DataFile(b)])
    /\ probe = ProbeOff

NextZephyr ==
    \/ \E name \in CycleNameArgs : get_test_pass_rate(name)
    \/ \E t \in ThresholdArgs : \E m \in MinExecutionArgs : get_flaky_tests(t, m)
    \/ TestCycleMetrics_pass_rate

SpecZephyr == InitZephyr /\ [][NextZephyr]_vars

(***************************************************************************)
(* The incident specification: a fresh process whose incident file holds  *)
(* up to MaxIncidents incidents drawn from the kinds below; the caller    *)
(* uses the two incident tools while time passes.                          *)
(***************************************************************************)
MaxIncidents == 3

IncidentIds == <<"INC-1", "INC-2", "INC-3", "INC-4">>

\* <<severity, reported_at - StartInstant, minutes to resolve (-1: open),
\* affected_users>>: reported 10 days ago and resolved after 6.5 hours,
\* exactly 30 days ago, a minute earlier, at the start instant, and a day
\* after it
IncidentKinds ==
    { <<"critical", -10 * MinutesPerDay, 390, 120>>,
      <<"critical", -30 * MinutesPerDay, 100, 3>>,
      <<"low", -30 * MinutesPerDay - 1, 45, 0>>,
      <<"medium", 0, 5, 1>>,
      <<"high", MinutesPerDay, -1, 9>> }

IncidentOf(i, k) ==
    Incident(IncidentIds[i], k[1], StartInstant + k[2],
             IF k[3] = -1 THEN -1 ELSE StartInstant + k[2] + k[3], k[4])

IncidentBodies ==
    UNION { { [i \in 1..n |-> IncidentOf(i, ks[i])] : ks \in [1..n -> IncidentKinds] }
            : n \in 0..MaxIncidents }

InitIncident ==
    /\ \E b \in IncidentBodies : Fresh([ShippedFiles EXCEPT !["incident"] = DataFile(b)])
    /\ probe = ProbeOff

NextIncident ==
    \/ \E sev \in SeverityArgs : \E days \in DaysArgs : get_incident_summary(sev, days)
    \/ get_mttr_by_severity
    \/ Tick

SpecIncident == InitIncident /\ [][NextIncident]_vars

(***************************************************************************)
(* The report specification: validate_report_format is called on reports  *)
(* that name all sections, lack one or all of them, or hold a word that    *)
(* resembles one; with or without advice and a number; of the word counts *)
(* on both sides of the two length limits.                                 *)
(***************************************************************************)
Vocabulary ==
    [Jira |-> <<"J", "i", "r", "a">>,
     SPRINT |-> <<"S", "P", "R", "I", "N", "T">>,
     velocity |-> <<"v", "e", "l", "o", "c", "i", "t", "y">>,
     Zephyr |-> <<"Z", "e", "p", "h", "y", "r">>,
     tests |-> <<"t", "e", "s", "t", "s">>,
     Latest |-> <<"L", "a", "t", "e", "s", "t">>,
     incidents |-> <<"i", "n", "c", "i", "d", "e", "n", "t", "s">>,
     problems |-> <<"p", "r", "o", "b", "l", "e", "m", "s">>,
     Summary |-> <<"S", "u", "m", "m", "a", "r", "y">>,
     summarize |-> <<"s", "u", "m", "m", "a", "r", "i", "z", "e">>,
     recommended |-> <<"r", "e", "c", "o", "m", "m", "e", "n", "d", "e", "d">>,
     Suggestions |-> <<"S", "u", "g", "g", "e", "s", "t", "i", "o", "n", "s">>,
     FortyTwo |-> <<"4", "2">>,
     Percent |-> <<"4", "2", "%">>,
     Seven |-> <<"7">>,
     Issues |-> <<"I", "s", "s", "u", "e", "s">>,
     Should |-> <<"S", "h", "o", "u", "l", "d">>,
     Para |-> <<Newline, Newline>>,
     Para3 |-> <<Newline, Newline, Newline>>,
     Para4 |-> <<Newline, Newline, Newline, Newline>>]

FullHead ==
    <<"Jira", "SPRINT", "velocity", "Zephyr", "tests", "incidents", "problems", "Summary">>

RECURSIVE Without(_, _)
\* the words at the positions outside S
Without(words, S) ==
    IF words = <<>> THEN <<>>
    ELSE LET rest == Without(SubSeq(words, 1, Len(words) - 1), S)
         IN  IF Len(words) \in S THEN rest ELSE Append(rest, words[Len(words)])

RECURSIVE Join(_)
\* " ".join(words)
Join(words) ==
    IF words = <<>> THEN <<>>
    ELSE IF Len(words) = 1 THEN Vocabulary[words[1]]
    ELSE Vocabulary[Head(words)] \o <<Space>> \o Join(Tail(words))

SectionWords ==
    { Without(FullHead, S) : S \in { T \in SUBSET (1..Len(FullHead)) : Cardinality(T) <= 1 } }
    \cup { <<>>,
           [FullHead EXCEPT ![Len(FullHead)] = "summarize"],
           [FullHead EXCEPT ![5] = "Latest"] }

ExtraWords ==
    { <<>>, <<"recommended">>, <<"Suggestions">>, <<"FortyTwo">>,
      <<"recommended", "FortyTwo">>, <<"FortyTwo", "Suggestions">> }

WordCounts == {MinWords - 1, MinWords, MaxWords, MaxWords + 1}

Reports ==
    UNION { { [head |-> Join(w \o e), filler |-> f]
              : f \in {0} \cup { t - Len(w \o e) : t \in WordCounts } }
            : w \in SectionWords, e \in ExtraWords }

NextReport == \E report \in Reports : validate_report_format(report)

SpecReport == Init /\ [][NextReport]_vars

(***************************************************************************)
(* The review specification: one report is handed to the two validator    *)
(* tools, in any order and any number of times; the first call of a run   *)
(* picks the report.  Neither tool reads any state, so a run that stays   *)
(* with one report loses no outcome.  The reports differ in the sections  *)
(* and sources they name, in their paragraph breaks, in the figures they  *)
(* hold ("42", "42%", "42% 7"), in their advice and in their length.      *)
(***************************************************************************)
BaseWords ==
    { FullHead,
      Without(FullHead, {3}),
      Without(FullHead, {7}),
      Without(FullHead, {Len(FullHead)}),
      Without(FullHead, {7}) \o <<"Issues">>,
      <<"Jira", "Latest", "Summary", "Issues">>,
      <<"Jira", "tests", "incidents", "Summary">>,
      <<>> }

BreakWords == { <<>>, <<"Para">>, <<"Para3">>, <<"Para", "Para">>, <<"Para4">> }

MetricWords == { <<>>, <<"FortyTwo">>, <<"Percent">>, <<"Percent", "Seven">> }

AdviceWords == { <<>>, <<"recommended">>, <<"Should">> }

QualityReports ==
    { [head |-> Join(w \o b \o m \o a), filler |-> f]
      : w \in BaseWords, b \in BreakWords, m \in MetricWords, a \in AdviceWords,
        f \in {0, MinWords} }

\* the reports a call may be made on: any, or the one under review
ReportsAt == IF last.op = "none" THEN QualityReports ELSE {last.args.report}

InitQuality == Fresh(ShippedFiles) /\ probe = NoProbe

NextQuality ==
    \E report \in ReportsAt :
        \/ validate_report_format(report)
        \/ check_report_quality(report)

SpecQuality == InitQuality /\ [][NextQuality]_vars

(***************************************************************************)
(* The frame specification: the caller loads, clears and calls every      *)
(* analysis tool, in any order, while a backing file may be rewritten     *)
(* with other content.                                                     *)
(***************************************************************************)
AnalysisCall ==
    \/ get_sprint_metrics(NoName)
    \/ get_velocity_trend(2)
    \/ get_test_pass_rate(NoName)
    \/ get_flaky_tests(70, 3)
    \/ get_incident_summary(NoName, 30)
    \/ get_mttr_by_severity

\* what a file is rewritten to: other data
FrameFiles(c) == {DataFile(b) : b \in StoreBodies(c)}

NextFrame ==
    \/ AnalysisCall
    \/ load_jira_data
    \/ load_zephyr_data
    \/ load_incident_data
    \/ clear_cache
    \/ \E c \in Coll : \E f \in FrameFiles(c) : SourceChanges(c, f)

SpecFrame == Init /\ [][NextFrame]_vars

(***************************************************************************)
(* The trend specification: a fresh process whose delivery file holds up  *)
(* to MaxSprints sprints with velocities a little more or less than 5%    *)
(* apart (83.33 and 87.5, 78.95 and 75), exactly 5% apart (100 and 105)   *)
(* and equal; the caller asks for the velocity trend.                      *)
(***************************************************************************)
TrendPairs == { <<6, 5>>, <<8, 7>>, <<19, 15>>, <<4, 3>>, <<20, 20>>, <<20, 21>> }

TrendBodies ==
    UNION { { [i \in 1..n |-> Sprint(i, pps[i], SprintTickets(i))] : pps \in [1..n -> TrendPairs] }
            : n \in 0..MaxSprints }

InitTrend ==
    /\ \E b \in TrendBodies : Fresh([ShippedFiles EXCEPT !["jira"] = DataFile(b)])
    /\ probe = ProbeOff

NextTrend == \E n \in NumArgs : get_velocity_trend(n)

SpecTrend == InitTrend /\ [][NextTrend]_vars

(***************************************************************************)
(* The concurrent specification: two threads each call a load function    *)
(* once.  The function takes no lock, so its statements interleave: the   *)
(* test of the cache variable, open() with json.load(), the assignment,   *)
(* and the return, which reads the cache variable again.                   *)
(***************************************************************************)
StoreOnly ==
    UNCHANGED <<source, now, loadsSince, held, cleared, changes, dirty, last, result, probe>>

\* thread t enters load_<c>_data
ThreadCall(t, c) ==
    /\ pc[t] = "idle"
    /\ pc' = [pc EXCEPT ![t] = "check"]
    /\ loc' = [loc EXCEPT ![t] = [IdleThread EXCEPT !.coll = c]]
    /\ UNCHANGED <<cache, reads, writes, fills>>
    /\ StoreOnly

\* `if _jira_cache is None:`
ThreadCheck(t) ==
    /\ pc[t] = "check"
    /\ pc' = [pc EXCEPT ![t] = IF CacheIsNone(loc[t].coll) THEN "open" ELSE "return"]
    /\ UNCHANGED <<cache, reads, writes, fills, loc>>
    /\ StoreOnly

\* `with open(...) as f:` and `json.load(f)`, up to the assignment
ThreadOpen(t) ==
    LET c == loc[t].coll IN
    /\ pc[t] = "open"
    /\ reads' = [reads EXCEPT ![c] = @ + 1]
    /\ IF source[c].kind = "missing"
       THEN /\ pc' = [pc EXCEPT ![t] = "done"]
            /\ loc' = [loc EXCEPT ![t].raised = "FileNotFoundError"]
       ELSE IF source[c].kind = "bad_syntax"
       THEN /\ pc' = [pc EXCEPT ![t] = "done"]
            /\ loc' = [loc EXCEPT ![t].raised = "JSONDecodeError"]
       ELSE /\ pc' = [pc EXCEPT ![t] = "assign"]
            /\ loc' = [loc EXCEPT ![t].value = JsonLoad(source[c], reads[c] + 1)]
    /\ UNCHANGED <<cache, writes, fills>>
    /\ StoreOnly

\* `_jira_cache = ...`
ThreadAssign(t) ==
    LET c == loc[t].coll IN
    /\ pc[t] = "assign"
    /\ cache' = [cache EXCEPT ![c] = loc[t].value]
    /\ writes' = [writes EXCEPT ![c] = @ + 1]
    /\ fills' = IF loc[t].value # NoneObj THEN [fills EXCEPT ![c] = @ + 1] ELSE fills
    /\ pc' = [pc EXCEPT ![t] = "return"]
    /\ UNCHANGED <<reads, loc>>
    /\ StoreOnly

\* `return _jira_cache`
ThreadReturn(t) ==
    /\ pc[t] = "return"
    /\ loc' = [loc EXCEPT ![t].ret = cache[loc[t].coll]]
    /\ pc' = [pc EXCEPT ![t] = "done"]
    /\ UNCHANGED <<cache, reads, writes, fills>>
    /\ StoreOnly

InitConc ==
    /\ \E files \in [Coll -> {"data", "missing", "null"}] :
          Fresh([c \in Coll |->
                    CASE files[c] = "data" -> ShippedFiles[c]
                      [] files[c] = "missing" -> MissingFile
                      [] files[c] = "null" -> NullFile])
    /\ probe = ProbeOff

NextConc ==
    \E t \in Threads :
        \/ \E c \in Coll : ThreadCall(t, c)
        \/ ThreadCheck(t)
        \/ ThreadOpen(t)
        \/ ThreadAssign(t)
        \/ ThreadReturn(t)

SpecConc == InitConc /\ [][NextConc]_vars

(***************************************************************************)
(* Steps.  A step of the environment rewrites a file or advances the      *)
(* clock; every other step is a call, recorded in last'.                  *)
(***************************************************************************)
EnvStep == changes' # changes \/ now' # now

\* a call that runs load_<c>_data, directly or inside a tool
LoadStepOn(c) == ~EnvStep /\ last'.coll = c

ClearStep == ~EnvStep /\ last'.op = "clear_cache"

\* a call of load_<c>_data leaves the other two collections alone
OthersUntouched(c) == \A d \in Coll \ {c} : cache'[d] = cache[d] /\ reads'[d] = reads[d]

(***************************************************************************)
(* C1  Read-through cache.                                                 *)
(***************************************************************************)
\* C1 as stated: in a run of load calls with no clear_cache in between,
\* only the first load reads the backing file, every later load returns
\* the structure the first one returned without raising or reading, and a
\* load of one collection leaves the other two alone.
C1_OnlyFirstLoadReads ==
    [][\A c \in Coll :
          LoadStepOn(c) =>
             /\ loadsSince[c] = 0 => last'.read
             /\ loadsSince[c] >= 1 =>
                   ~last'.read /\ last'.raised = "none" /\ last'.ret = held[c]
             /\ OthersUntouched(c)]_vars

\* C1 amended: with no clear_cache in between, a load reads the backing
\* file exactly when no earlier load has returned a non-null structure; once
\* one has, every later load returns that very structure (same identity)
\* without reading, whatever the file holds by then; and a load of one
\* collection never reads or fills the cache of another.
C1_ReadThrough ==
    [][\A c \in Coll :
          LoadStepOn(c) =>
             /\ held[c] = NoneObj => last'.read /\ reads'[c] = reads[c] + 1
             /\ held[c] # NoneObj =>
                   /\ ~last'.read /\ reads'[c] = reads[c]
                   /\ last'.raised = "none"
                   /\ last'.ret = held[c]
             /\ OthersUntouched(c)]_vars

\* a third load of the delivery data returned the structure of the first
\* without reading, although the file had been rewritten in between
C1_Witness ==
    /\ last.op = "load_jira_data" /\ loadsSince["jira"] = 2
    /\ ~last.read /\ last.ret = held["jira"] /\ last.ret.kind = "data"
    /\ source["jira"] # DataFile(last.ret.body)
    /\ cache["zephyr"] # NoneObj

(***************************************************************************)
(* C2  clear_cache.                                                        *)
(***************************************************************************)
\* C2: clear_cache empties all three caches whatever they held and changes
\* nothing else (files, clock, read and write counts); after it the next
\* load of each collection opens the backing file exactly once.
C2_ClearCache ==
    [][/\ ClearStep =>
             /\ \A c \in Coll : cache'[c] = NoneObj
             /\ source' = source /\ now' = now /\ reads' = reads /\ writes' = writes
       /\ \A c \in Coll :
             (LoadStepOn(c) /\ cleared /\ loadsSince[c] = 0) =>
                 last'.read /\ reads'[c] = reads[c] + 1]_vars

\* the incident data was loaded, evicted, and read from the file again
C2_Witness ==
    /\ cleared /\ last.op = "load_incident_data" /\ last.read
    /\ loadsSince["incident"] = 1 /\ reads["incident"] = 2
    /\ last.ret.id = 2 /\ cache["incident"] = last.ret

(***************************************************************************)
(* C3  How often a cache is written.                                       *)
(***************************************************************************)
\* C3 as stated: over any sequence of load and clear_cache calls the cache
\* of each collection is assigned a loaded value at most once.
C3_WrittenOnce == \A c \in Coll : writes[c] <= 1

\* C3 amended: with one caller at a time, the cache of each collection is
\* assigned a non-null loaded value at most once between two consecutive
\* clear_cache calls (and at most once before the first).
C3_FilledOncePerClear == \A c \in Coll : fills[c] <= 1

\* a cache written a second time, after a clear_cache
C3_Witness ==
    \E c \in Coll : cleared /\ writes[c] = 2 /\ fills[c] = 1 /\ cache[c].id = 2

(***************************************************************************)
(* C4  Two threads loading the same collection.                            *)
(***************************************************************************)
\* C4: when two threads have called the same load function on an empty
\* cache, the backing file was read once and both calls returned the same
\* structure.
C4_ConcurrentLoadReadsOnce ==
    (/\ pc["t1"] = "done" /\ pc["t2"] = "done"
     /\ loc["t1"].coll = loc["t2"].coll
     /\ loc["t1"].raised = "none" /\ loc["t2"].raised = "none")
    => /\ reads[loc["t1"].coll] = 1
       /\ loc["t1"].ret = loc["t2"].ret

SameCall == probe.op # "none" /\ probe.op = last.op /\ probe.args = last.args

\* how the last call ended: its exception or its result
Outcome == [raised |-> last.raised, value |-> result]

\* C6 as stated: a tool call that repeats an earlier one, no backing file
\* having been rewritten between the two, ends as the earlier one did,
\* whatever was called and however much time passed in between.
C6_Repeatable == (SameCall /\ probe.epoch = changes) => Outcome = probe.result

\* C6 amended: a tool call that repeats an earlier one ends as the earlier
\* one did (same result or same exception), whatever was called in
\* between, provided the collection's backing file has not been rewritten
\* since the process first read it and, for get_incident_summary, whose
\* window ends at the current instant, both calls are made at the same
\* instant.
C6_RepeatableOnCleanData ==
    (/\ SameCall
     /\ ~dirty[last.coll]
     /\ last.op = "get_incident_summary" => probe.now = now)
    => Outcome = probe.result

\* get_flaky_tests repeated a day later, after a clear_cache and a second
\* read of the file
C6_Witness ==
    /\ SameCall /\ last.op = "get_flaky_tests" /\ ~dirty["zephyr"]
    /\ cleared /\ last.read /\ reads["zephyr"] = 2
    /\ probe.now < now
    /\ result.total_flaky_tests = 1 /\ Outcome = probe.result

(***************************************************************************)
(* C7  Lookup by name.                                                     *)
(***************************************************************************)
ItemName(op, x) == IF op = "get_sprint_metrics" THEN x.sprint_name ELSE x.cycle_name

ResultName(r) == IF r.kind = "sprint_metrics" THEN r.sprint_name ELSE r.cycle_name

\* the result is the metrics mapping of item x
Describes(op, x) ==
    /\ last.raised = "none"
    /\ result.kind = (IF op = "get_sprint_metrics" THEN "sprint_metrics" ELSE "pass_rate")
    /\ ResultName(result) = ItemName(op, x)
    /\ result.date_range = <<x.start_date, x.end_date>>

\* C7: over a stored sequence that is not empty, get_sprint_metrics and
\* get_test_pass_rate describe the last stored element when the name is
\* omitted, the element of that name when a name is supplied and stored,
\* and return a mapping with an error field, raising nothing, when a name
\* is supplied that no element has.
C7_LookupSelection ==
    (/\ last.op \in {"get_sprint_metrics", "get_test_pass_rate"}
     /\ last.ret.kind = "data" /\ last.ret.body # <<>>) =>
        LET items == last.ret.body
            name == last.args.name
            named == {i \in 1..Len(items) : ItemName(last.op, items[i]) = name}
        IN  IF name = NoName
            THEN Describes(last.op, items[Len(items)])
            ELSE IF named # {}
            THEN \E i \in named : Describes(last.op, items[i])
            ELSE last.raised = "none" /\ result.kind = "error"

(***************************************************************************)
(* C8  Velocity.                                                           *)
(***************************************************************************)
\* v (hundredths) is completed/planned x 100 rounded to two decimals, or 0
\* when nothing was planned
IsVelocityOf(v, sprint) ==
    LET p == sprint.planned_points
        c == sprint.completed_points
        d == v * p - 10000 * c
    IN  /\ v >= 0
        /\ p = 0 => v = 0
        /\ p > 0 => 2 * d <= p /\ -2 * d <= p
        /\ (p = 48 /\ c = 35) => v = 7292

\* the stored sprint of that name
StoredSprint(name) ==
    LET body == cache["jira"].body
    IN  body[CHOOSE i \in 1..Len(body) : body[i].sprint_name = name]

\* C8: the velocity get_sprint_metrics reports for a sprint, the velocity
\* get_velocity_trend lists for it and SprintMetrics.velocity are one value:
\* completed/planned x 100 rounded to two decimals (72.92 for 35 of 48), 0
\* when planned_points is 0, never negative.
C8_Velocity ==
    /\ result.kind = "sprint_metrics" =>
          /\ IsVelocityOf(result.velocity, StoredSprint(result.sprint_name))
          /\ result.velocity = SprintMetricsVelocity(StoredSprint(result.sprint_name))
          /\ result.velocity = TrendVelocity(StoredSprint(result.sprint_name))
    /\ result.kind = "velocity_trend" =>
          \A i \in 1..Len(result.sprints) :
             LET e == result.sprints[i] IN
             /\ IsVelocityOf(e.velocity, StoredSprint(e.sprint_name))
             /\ e.velocity = SprintMetricsVelocity(StoredSprint(e.sprint_name))
             /\ e.velocity = MetricsVelocity(StoredSprint(e.sprint_name))
    /\ result.kind = "model_velocity" =>
          IsVelocityOf(result.velocity, StoredSprint(result.sprint_name))

\* get_sprint_metrics reported 72.92 for 35 of 48 points
C8_Witness ==
    /\ result.kind = "sprint_metrics" /\ result.velocity = 7292
    /\ result.planned_points = 48 /\ result.completed_points = 35
    /\ \E i \in 1..Len(cache["jira"].body) :
          cache["jira"].body[i].planned_points = 0
          /\ cache["jira"].body[i].completed_points = 5

(***************************************************************************)
(* C9  The window of get_velocity_trend.                                   *)
(***************************************************************************)
\* C9: the 'sprints' list of a get_velocity_trend result names exactly the
\* last min(num_sprints, L) of the L stored sprints, in stored order.
C9_WindowIsLastN ==
    (last.op = "get_velocity_trend" /\ last.ret.kind = "data" /\ last.raised = "none") =>
        LET stored == last.ret.body
            L == Len(stored)
            k == Min(last.args.n, L)
        IN  /\ Len(result.sprints) = k
            /\ \A i \in 1..k : result.sprints[i].sprint_name = stored[L - k + i].sprint_name

(***************************************************************************)
(* C10  Trend classification.                                              *)
(***************************************************************************)
\* the classification of a trend result r, for the velocities vs of a window
Classified(vs, r) ==
    IF Len(vs) >= 2
    THEN LET first == vs[1]
             lastv == vs[Len(vs)]
         IN  IF first = 0
             THEN r.velocity_change = 0 /\ r.trend = "stable"
             ELSE /\ r.velocity_change = Round2((lastv - first) * 100, first)
                  /\ r.trend =
                        (IF (lastv - first) * 100 > 5 * first THEN "improving"
                         ELSE IF (lastv - first) * 100 < -5 * first THEN "declining"
                         ELSE "stable")
                  /\ (first = 9600 /\ lastv = 7292) =>
                        r.velocity_change = -2404 /\ r.trend = "declining"
    ELSE r.trend = "insufficient_data" /\ r.velocity_change = 0

\* the velocities of the window get_velocity_trend takes
WindowVelocities(stored, n) ==
    LET w == LastN(stored, n) IN [i \in 1..Len(w) |-> SprintMetricsVelocity(w[i])]

\* C10: get_velocity_trend returns, for a window of at least 2 sprints, the
\* percentage change from the first to the last velocity (0 when the first
\* is 0) and the trend improving / declining / stable at the +5 / -5
\* marks, and for a window of fewer than 2 sprints trend insufficient_data
\* and velocity_change 0.
C10_TrendClassification ==
    (last.op = "get_velocity_trend" /\ last.ret.kind = "data") =>
        /\ last.raised = "none"
        /\ Classified(WindowVelocities(last.ret.body, last.args.n), result)

\* the same for the windows that hold at least one sprint
C10_TrendOnNonEmptyWindow ==
    (last.op = "get_velocity_trend" /\ last.ret.kind = "data" /\ last.ret.body # <<>>) =>
        /\ last.raised = "none"
        /\ Classified(WindowVelocities(last.ret.body, last.args.n), result)

(***************************************************************************)
(* C11  Empty samples and zero denominators.                               *)
(***************************************************************************)
\* the stored item of that name (sprint or cycle) in a loaded collection
NamedItem(op, items, name) ==
    items[CHOOSE i \in 1..Len(items) : ItemName(op, items[i]) = name]

HasNamed(op, items, name) == \E i \in 1..Len(items) : ItemName(op, items[i]) = name

\* C11: a tool whose ratio has a zero denominator returns normally with
\* 0.0: get_velocity_trend over a window without sprints gives
\* average_velocity 0, get_sprint_metrics on a sprint with nothing planned
\* gives velocity 0, get_test_pass_rate on a cycle without executions gives
\* pass_rate 0, and get_mttr_by_severity without a resolved incident gives
\* overall_mttr 0.
C11_NoRaiseOnEmptySample ==
    last.ret.kind = "data" =>
        LET items == last.ret.body IN
        /\ (last.op = "get_velocity_trend" /\ LastN(items, last.args.n) = <<>>) =>
              last.raised = "none" /\ result.average_velocity = 0
        /\ (/\ last.op = "get_sprint_metrics" /\ HasNamed(last.op, items, last.args.name)
            /\ NamedItem(last.op, items, last.args.name).planned_points = 0) =>
              last.raised = "none" /\ result.velocity = 0
        /\ (/\ last.op = "get_test_pass_rate" /\ HasNamed(last.op, items, last.args.name)
            /\ NamedItem(last.op, items, last.args.name).executions = <<>>) =>
              last.raised = "none" /\ result.pass_rate = 0
        /\ (/\ last.op = "get_mttr_by_severity"
            /\ \A i \in 1..Len(items) : items[i].resolved_at = -1) =>
              last.raised = "none" /\ result.overall_mttr = 0

\* the same without the velocity trend: the other three divisions are
\* guarded
C11_OtherRatiosGuarded ==
    last.op # "get_velocity_trend" => C11_NoRaiseOnEmptySample

(***************************************************************************)
(* C12  Pass rate of a test cycle.                                         *)
(***************************************************************************)
\* C12: in every get_test_pass_rate result and in the TestCycleMetrics model
\* of every stored cycle, passed + failed + blocked + skipped = total_tests,
\* pass_rate lies in [0, 100], and pass_rate is passed / total_tests x 100
\* rounded to two decimals.
C12_PassRate ==
    result.kind \in {"pass_rate", "model_pass_rate"} =>
        /\ result.passed + result.failed + result.blocked + result.skipped
              = result.total_tests
        /\ 0 <= result.pass_rate /\ result.pass_rate <= 10000
        /\ result.total_tests > 0 =>
              LET d == result.pass_rate * result.total_tests - 10000 * result.passed
              IN  2 * d <= result.total_tests /\ -2 * d <= result.total_tests

\* get_test_pass_rate described a cycle of two executions, one passed and
\* one skipped: 50.0
C12_Witness ==
    /\ last.op = "get_test_pass_rate" /\ result.kind = "pass_rate"
    /\ result.total_tests = 2 /\ result.passed = 1 /\ result.skipped = 1
    /\ result.failed = 0 /\ result.pass_rate = 5000

(***************************************************************************)
(* C13  Which tests are flaky.                                             *)
(***************************************************************************)
RECURSIVE Executed(_, _, _)
\* how many executions of test t the cycles hold, of any status or of the
\* given one
Executed(cycles, t, status) ==
    IF cycles = <<>> THEN 0
    ELSE LET ex == Head(cycles).executions IN
         Cardinality({j \in 1..Len(ex) :
                         ex[j].test_id = t /\ status \in {"any", ex[j].status}})
         + Executed(Tail(cycles), t, status)

\* the positions of test t in a flaky_tests list
ListedAt(flaky_tests, t) == {i \in 1..Len(flaky_tests) : flaky_tests[i].test_id = t}

\* C13: a test is in flaky_tests exactly when its executions over all cycles
\* number at least min_executions and its pass ratio passed / total lies
\* strictly between 0 and the threshold; it is listed at most once, and
\* total_flaky_tests is the length of the list.
C13_FlakyMembership ==
    (last.op = "get_flaky_tests" /\ last.ret.kind = "data") =>
        LET cycles == last.ret.body
            threshold == last.args.days
            min_executions == last.args.n
        IN  /\ last.raised = "none"
            /\ result.total_flaky_tests = Len(result.flaky_tests)
            /\ \A k \in 1..Len(TestIds) :
                  LET t == TestIds[k]
                      total == Executed(cycles, t, "any")
                      passed == Executed(cycles, t, "passed")
                  IN  /\ Cardinality(ListedAt(result.flaky_tests, t)) <= 1
                      /\ ListedAt(result.flaky_tests, t) # {} <=>
                            /\ total > 0 /\ total >= min_executions
                            /\ 0 < passed /\ passed * 100 < threshold * total

\* at threshold 0.7 and 3 executions at least, the test that passed once in
\* three cycles is listed with 33.33 and the other, which ran twice, is not
C13_Witness ==
    /\ last.op = "get_flaky_tests" /\ last.args.days = 70 /\ last.args.n = 3
    /\ result.total_flaky_tests = 1
    /\ result.flaky_tests[1].executions = 3 /\ result.flaky_tests[1].passed = 1
    /\ result.flaky_tests[1].pass_rate = 3333
    /\ \E t \in {"T1", "T2"} :
          /\ Executed(last.ret.body, t, "any") = 2
          /\ Executed(last.ret.body, t, "passed") = 1

(***************************************************************************)
(* C14  Tests that never or always passed.                                 *)
(***************************************************************************)
\* C14: whatever the threshold and min_executions, flaky_tests lists no test
\* whose pass rate is 0% (it never passed) or 100% (it always passed).
C14_NoConsistentTestListed ==
    result.kind = "flaky_tests" =>
        \A i \in 1..Len(result.flaky_tests) :
            LET e == result.flaky_tests[i] IN
            /\ 0 < e.passed /\ e.passed < e.executions
            /\ e.pass_rate # 0 /\ e.pass_rate # 10000

\* the same for the thresholds that are ratios, up to 1.0
C14_WithRatioThreshold ==
    (result.kind = "flaky_tests" /\ result.threshold <= 100) => C14_NoConsistentTestListed

(***************************************************************************)
(* C15  Order and counts of the flaky list.                                *)
(***************************************************************************)
\* the cycles that hold an execution of test t
CyclesWith(cycles, t) ==
    {k \in 1..Len(cycles) :
        \E j \in 1..Len(cycles[k].executions) : cycles[k].executions[j].test_id = t}

\* where the scan of cycles and executions first meets test t: <<cycle,
\* position in the cycle>>
FirstMet(cycles, t) ==
    LET k == CHOOSE c \in CyclesWith(cycles, t) : \A d \in CyclesWith(cycles, t) : c <= d
        ex == cycles[k].executions
        at == {j \in 1..Len(ex) : ex[j].test_id = t}
    IN  <<k, CHOOSE j \in at : \A h \in at : j <= h>>

MetBefore(cycles, t, u) ==
    LET a == FirstMet(cycles, t)
        b == FirstMet(cycles, u)
    IN  a[1] < b[1] \/ (a[1] = b[1] /\ a[2] < b[2])

\* C15: flaky_tests is in ascending order of pass_rate, entries of equal
\* pass_rate stand in the order in which the scan first met their test_id,
\* and in every entry passed + failed = executions, failed counting every
\* execution that did not pass (failed, blocked or skipped).
C15_FlakyOrder ==
    (result.kind = "flaky_tests" /\ last.ret.kind = "data") =>
        LET list == result.flaky_tests
            cycles == last.ret.body
        IN  /\ \A i, j \in 1..Len(list) :
                  i < j =>
                     /\ list[i].pass_rate <= list[j].pass_rate
                     /\ list[i].pass_rate = list[j].pass_rate =>
                           MetBefore(cycles, list[i].test_id, list[j].test_id)
            /\ \A i \in 1..Len(list) :
                  /\ list[i].passed + list[i].failed = list[i].executions
                  /\ list[i].executions = Executed(cycles, list[i].test_id, "any")
                  /\ list[i].failed =
                        Executed(cycles, list[i].test_id, "failed")
                        + Executed(cycles, list[i].test_id, "blocked")
                        + Executed(cycles, list[i].test_id, "skipped")

\* two tests of pass rate 33.33, the one met first listed first although
\* its test_id is the higher one, its two other executions blocked and
\* skipped
C15_Witness ==
    /\ result.kind = "flaky_tests" /\ Len(result.flaky_tests) = 2
    /\ result.flaky_tests[1].pass_rate = 3333 /\ result.flaky_tests[2].pass_rate = 3333
    /\ result.flaky_tests[1].test_id = "T2" /\ result.flaky_tests[2].test_id = "T1"
    /\ result.flaky_tests[1].failed = 2
    /\ Executed(last.ret.body, "T2", "blocked") = 1

(***************************************************************************)
(* C16  Which incidents a summary selects.                                 *)
(***************************************************************************)
\* a step that is a get_incident_summary call on loaded data; the clock
\* does not move during it
SummaryStep ==
    ~EnvStep /\ last'.op = "get_incident_summary" /\ last'.ret.kind = "data"

\* the ids of a list of incidents, in order
IdsOf(list) == [i \in 1..Len(list) |-> list[i].id]

\* the severity asked for is omitted or is that of the incident, letter
\* case aside
SeverityAsked(inc, severity) == severity = NoName \/ Lower(inc.severity) = Lower(severity)

\* C16: get_incident_summary lists, in stored order, exactly the incidents
\* reported within the trailing days-day window from the current instant,
\* now - days <= reported_at <= now with the lower bound included, that have
\* the severity asked for, compared case-insensitively.
C16_WindowSelection ==
    [][SummaryStep =>
          /\ last'.raised = "none"
          /\ IdsOf(result'.incidents) =
                IdsOf(Filter(last'.ret.body,
                             LAMBDA inc :
                                /\ now - last'.args.days * MinutesPerDay <= inc.reported_at
                                /\ inc.reported_at <= now
                                /\ SeverityAsked(inc, last'.args.severity)))]_vars

\* the same with the lower bound alone: every incident reported at or after
\* now - days, among them those dated after the current instant
C16_SelectionFromCutoff ==
    [][SummaryStep =>
          /\ last'.raised = "none"
          /\ IdsOf(result'.incidents) =
                IdsOf(Filter(last'.ret.body,
                             LAMBDA inc :
                                /\ now - last'.args.days * MinutesPerDay <= inc.reported_at
                                /\ SeverityAsked(inc, last'.args.severity)))]_vars

(***************************************************************************)
(* C17  Counts of an incident summary.                                     *)
(***************************************************************************)
RECURSIVE SumValues(_, _)
\* the sum of f over the keys in S
SumValues(f, S) ==
    IF S = {} THEN 0
    ELSE LET x == CHOOSE y \in S : TRUE IN f[x] + SumValues(f, S \ {x})

\* C17: get_incident_summary on loaded data raises nothing and returns no
\* error; in its result total_incidents = length of incidents = resolved +
\* unresolved = sum of the by_severity values, by_severity has a key exactly
\* for the severities of the listed incidents, with their count,
\* affected_users_total is the sum of affected_users over the listed
\* incidents, and with nothing listed every count is 0 and by_severity is
\* empty.
C17_SummaryCounts ==
    (last.op = "get_incident_summary" /\ last.ret.kind = "data") =>
        LET list == result.incidents
            at(s) == {i \in 1..Len(list) : list[i].severity = s}
        IN  /\ last.raised = "none" /\ result.kind = "incident_summary"
            /\ result.total_incidents = Len(list)
            /\ result.total_incidents = result.resolved + result.unresolved
            /\ result.resolved = Cardinality({i \in 1..Len(list) : list[i].resolved})
            /\ result.total_incidents =
                  SumValues(result.by_severity, DOMAIN result.by_severity)
            /\ DOMAIN result.by_severity = {list[i].severity : i \in 1..Len(list)}
            /\ \A s \in DOMAIN result.by_severity :
                  result.by_severity[s] >= 1 /\ result.by_severity[s] = Cardinality(at(s))
            /\ result.affected_users_total =
                  SumSeq([i \in 1..Len(list) |-> list[i].affected_users])
            /\ list = <<>> =>
                  /\ result.total_incidents = 0 /\ result.resolved = 0
                  /\ result.unresolved = 0 /\ result.affected_users_total = 0
                  /\ DOMAIN result.by_severity = {}

\* a summary of the critical incidents alone, two of the three stored ones,
\* both resolved, 123 users affected
C17_Witness ==
    /\ last.op = "get_incident_summary" /\ last.args.severity = "CRITICAL"
    /\ Len(last.ret.body) = 3
    /\ result.total_incidents = 2 /\ DOMAIN result.by_severity = {"critical"}
    /\ result.resolved = 2 /\ result.affected_users_total = 123

(***************************************************************************)
(* C18  Keys and counts of get_mttr_by_severity.                           *)
(***************************************************************************)
\* the stored incidents of severity s that have a resolved_at
ResolvedOf(incidents, s) ==
    {i \in 1..Len(incidents) : incidents[i].severity = s /\ incidents[i].resolved_at # -1}

\* C18: get_mttr_by_severity looks at every stored incident that has a
\* resolved_at, whenever it was reported: mttr_by_severity and
\* resolved_incidents_by_severity have the same keys, the severities with at
\* least one resolved incident; each count is the number of resolved
\* incidents of that severity, at least 1; total_resolved_incidents is the
\* sum of the counts.
C18_MttrKeys ==
    (last.op = "get_mttr_by_severity" /\ last.ret.kind = "data") =>
        LET stored == last.ret.body
            counts == result.resolved_incidents_by_severity
        IN  /\ last.raised = "none"
            /\ DOMAIN result.mttr_by_severity = DOMAIN counts
            /\ DOMAIN counts =
                  {s \in {stored[i].severity : i \in 1..Len(stored)} :
                      ResolvedOf(stored, s) # {}}
            /\ \A s \in DOMAIN counts :
                  counts[s] >= 1 /\ counts[s] = Cardinality(ResolvedOf(stored, s))
            /\ result.total_resolved_incidents = SumValues(counts, DOMAIN counts)
            /\ result.total_resolved_incidents =
                  Cardinality({i \in 1..Len(stored) : stored[i].resolved_at # -1})

\* three incidents stored: an open one of high severity, which has no key,
\* one resolved more than 30 days ago and one resolved critical one
C18_Witness ==
    /\ last.op = "get_mttr_by_severity" /\ Len(last.ret.body) = 3
    /\ DOMAIN result.mttr_by_severity = {"low", "critical"}
    /\ \E i \in 1..3 : last.ret.body[i].severity = "high"
    /\ result.total_resolved_incidents = 2
    /\ now > StartInstant

(***************************************************************************)
(* C19  The overall MTTR is the weighted mean of the per-severity ones.    *)
(***************************************************************************)
RECURSIVE MinutesToResolve(_, _)
\* the minutes from report to resolution, summed over the incidents at the
\* positions in S
MinutesToResolve(incidents, S) ==
    IF S = {} THEN 0
    ELSE LET i == CHOOSE j \in S : TRUE IN
         incidents[i].resolved_at - incidents[i].reported_at
         + MinutesToResolve(incidents, S \ {i})

\* v (hundredths of an hour) is minutes / (60 x count) rounded to two
\* decimals
IsMeanHours(v, minutes, count) ==
    LET d == v * MinutesPerHour * count - 100 * minutes
    IN  2 * d <= MinutesPerHour * count /\ -2 * d <= MinutesPerHour * count

\* C19: with at least one resolved incident, the per-severity means
\* weighted by their resolved counts give the overall mean: exactly before
\* rounding (the per-severity sums of resolution times add up to the sum
\* over all resolved incidents, of which overall_mttr is the rounded mean),
\* and within 0.01 hours on the reported, rounded values; one critical
\* incident resolved after 6.5 hours gives a critical mean of 6.5.
C19_WeightedMean ==
    (/\ last.op = "get_mttr_by_severity" /\ last.ret.kind = "data"
     /\ last.raised = "none" /\ result.total_resolved_incidents > 0) =>
        LET stored == last.ret.body
            keys == DOMAIN result.mttr_by_severity
            counts == result.resolved_incidents_by_severity
            total == result.total_resolved_incidents
            minutes == [s \in keys |-> MinutesToResolve(stored, ResolvedOf(stored, s))]
            all == MinutesToResolve(stored, {i \in 1..Len(stored) : stored[i].resolved_at # -1})
            weighted == [s \in keys |-> counts[s] * result.mttr_by_severity[s]]
            gap == SumValues(weighted, keys) - total * result.overall_mttr
        IN  /\ SumValues(minutes, keys) = all
            /\ \A s \in keys : IsMeanHours(result.mttr_by_severity[s], minutes[s], counts[s])
            /\ IsMeanHours(result.overall_mttr, all, total)
            /\ gap <= total /\ -gap <= total
            /\ (/\ "critical" \in keys /\ counts["critical"] = 1
                /\ minutes["critical"] = 390) => result.mttr_by_severity["critical"] = 650

\* two critical incidents resolved after 6.5 hours and after 100 minutes
\* (mean 4.08) and a low one after 45 minutes (0.75): overall 2.97
C19_Witness ==
    /\ last.op = "get_mttr_by_severity" /\ result.kind = "mttr"
    /\ result.total_resolved_incidents = 3
    /\ DOMAIN result.mttr_by_severity = {"critical", "low"}
    /\ result.mttr_by_severity["critical"] = 408 /\ result.mttr_by_severity["low"] = 75
    /\ result.overall_mttr = 297

(***************************************************************************)
(* C20  validate_report_format.                                            *)
(***************************************************************************)
\* the text holds the word, whatever the case of its letters
Mentions(text, word) ==
    \E off \in 0..(Len(text) - Len(word)) :
        \A k \in 1..Len(word) : ToLower(text[off + k]) = word[k]

RECURSIVE WordEnds(_, _)
\* the words of a text that end before `inside`, the flag telling whether
\* the character after the text belongs to a word; the text is read from
\* its end
WordEnds(text, inside) ==
    IF text = <<>> THEN (IF inside THEN 1 ELSE 0)
    ELSE LET ch == text[Len(text)]
             rest == SubSeq(text, 1, Len(text) - 1)
         IN  IF ch \in Whitespace THEN WordEnds(rest, FALSE) + (IF inside THEN 1 ELSE 0)
             ELSE WordEnds(rest, TRUE)

WordsOf(report) == WordEnds(report.head, FALSE) + report.filler

InSeq(x, s) == \E i \in 1..Len(s) : s[i] = x

\* C20: valid is true exactly when missing_sections and errors are both
\* empty, whatever the warnings; the errors are the 'too short' error when
\* the report has fewer than 100 words and nothing otherwise; that error and
\* the 'over 2000 words' warning are never both present; a report that does
\* not hold 'summary' in any letter case is not valid and has 'summary' in
\* missing_sections.
C20_ValidateReportFormat ==
    last.op = "validate_report_format" =>
        LET report == last.args.report IN
        /\ result.valid <=> (result.missing_sections = <<>> /\ result.errors = <<>>)
        /\ result.word_count = WordsOf(report)
        /\ result.errors = IF WordsOf(report) < 100 THEN <<TooShort>> ELSE <<>>
        /\ ~(InSeq(TooShort, result.errors) /\ InSeq(VeryLong, result.warnings))
        /\ ~Mentions(report.head, Chars["summary"]) =>
               ~result.valid /\ InSeq("summary", result.missing_sections)

\* a report of 2001 words that says "summarize" and never "summary", and
\* that draws warnings but no error
C20_Witness ==
    /\ last.op = "validate_report_format"
    /\ Mentions(last.args.report.head, <<"s", "u", "m", "m", "a", "r", "i", "z", "e">>)
    /\ ~Mentions(last.args.report.head, Chars["summary"])
    /\ result.word_count = 2001
    /\ result.errors = <<>> /\ InSeq(VeryLong, result.warnings)
    /\ result.missing_sections = <<"summary">>
    /\ ~result.valid

(***************************************************************************)
(* C21  check_report_quality.                                              *)
(***************************************************************************)
\* a word of the text that consists of digits only
HasNumeral(text) ==
    \E i \in 1..Len(text) : \E j \in i..Len(text) :
        /\ \A k \in i..j : text[k] \in Digits
        /\ i = 1 \/ text[i - 1] \in Whitespace
        /\ j = Len(text) \/ text[j + 1] \in Whitespace

\* two blank lines that share no character
TwoBreaks(text) ==
    \E p \in 1..Len(text) : \E q \in (p + 2)..(Len(text) - 1) :
        /\ text[p] = Newline /\ text[p + 1] = Newline
        /\ text[q] = Newline /\ text[q + 1] = Newline

MentionsAny(text, words) == \E w \in words : Mentions(text, Chars[w])

\* the penalties of the signal categories the text lacks
AbsentPenalties(text) ==
    (IF Mentions(text, Chars["summary"]) THEN 0 ELSE 20)
    + (IF (\E i \in 1..Len(text) : text[i] = "%") /\ HasNumeral(text) THEN 0 ELSE 15)
    + (IF MentionsAny(text, {"problem", "issue", "concern", "decline", "failure"})
       THEN 0 ELSE 15)
    + (IF MentionsAny(text, {"recommend", "suggest", "should", "action"}) THEN 0 ELSE 20)
    + (IF Cardinality({w \in {"jira", "sprint", "zephyr", "test", "incident"} :
                           Mentions(text, Chars[w])}) >= 3
       THEN 0 ELSE 15)
    + (IF TwoBreaks(text) THEN 0 ELSE 15)

TicketsWhere(name, Test(_)) ==
    {i \in 1..Len(StoredSprint(name).tickets) : Test(StoredSprint(name).tickets[i])}

\* C22: completed_tickets is the number of tickets with status done,
\* whether or not completed_at is set, so it is never below (and can be
\* above) the number of tickets for which is_completed holds; and
\* completed_tickets + in_progress_tickets + blocked_tickets is at most
\* total_tickets, the difference being the number of todo tickets.
C22_TicketCounts ==
    result.kind = "sprint_metrics" =>
        LET name == result.sprint_name
            counted == result.completed_tickets + result.in_progress_tickets
                       + result.blocked_tickets
        IN  /\ result.completed_tickets
                 = Cardinality(TicketsWhere(name, LAMBDA t : t.status = "done"))
            /\ result.completed_tickets >= Cardinality(TicketsWhere(name, is_completed))
            /\ result.total_tickets = Len(StoredSprint(name).tickets)
            /\ counted <= result.total_tickets
            /\ result.total_tickets - counted
                 = Cardinality(TicketsWhere(name, LAMBDA t : t.status = "todo"))

\* a sprint with two done tickets, one of them without completed_at, and a
\* todo ticket: two completed tickets reported, one is_completed
C22_Witness ==
    /\ last.op = "get_sprint_metrics" /\ result.kind = "sprint_metrics"
    /\ result.completed_tickets = 2
    /\ Cardinality(TicketsWhere(result.sprint_name, is_completed)) = 1
    /\ result.total_tickets = 5
    /\ result.completed_tickets + result.in_progress_tickets + result.blocked_tickets = 4

(***************************************************************************)
(* C23  Frame: the analysis operations leave the caches alone.             *)
(***************************************************************************)
AnalysisOps ==
    {"get_sprint_metrics", "get_velocity_trend", "get_test_pass_rate", "get_flaky_tests",
     "get_incident_summary", "get_mttr_by_severity"}

\* C23: no call changes a filled cache except clear_cache, so a filled
\* cache holds the structure, with the content, that the load which filled
\* it returned; a cache variable changes only from empty to filled, by
\* load_<c>_data (called directly or inside a tool of that collection)
\* assigning what it read, and to empty, by clear_cache.
C23_Frame ==
    [][\A c \in Coll :
          /\ cache'[c] # NoneObj => cache'[c] = held'[c]
          /\ (cache[c] # NoneObj /\ ~ClearStep) => cache'[c] = cache[c]
          /\ cache'[c] # cache[c] =>
                \/ ClearStep /\ cache'[c] = NoneObj
                \/ /\ LoadStepOn(c) /\ cache[c] = NoneObj /\ last'.read
                   /\ cache'[c] = last'.ret /\ cache'[c].body = source[c].body]_vars

\* tools of all three collections have run, the last one on a cached
\* collection whose file was rewritten after the load: the cache still
\* holds what the load returned, not what the file holds now
C23_Witness ==
    /\ last.op \in AnalysisOps /\ ~last.read /\ last.raised = "none"
    /\ \A c \in Coll : cache[c] # NoneObj /\ cache[c] = held[c]
    /\ dirty[last.coll] /\ cache[last.coll].body # source[last.coll].body
    /\ result.kind # "none"

(***************************************************************************)
(* C24  The trend label and the reported velocity_change.                  *)
(***************************************************************************)
\* the label that the reported change (hundredths of a percent) stands for
LabelOf(velocity_change) ==
    IF velocity_change > 500 THEN "improving"
    ELSE IF velocity_change < -500 THEN "declining"
    ELSE "stable"

\* C24: in a result over at least 2 sprints the trend is improving exactly
\* when the reported velocity_change is above 5, declining exactly when it
\* is below -5, and stable otherwise.
C24_TrendMatchesReportedChange ==
    (last.op = "get_velocity_trend" /\ result.kind = "velocity_trend"
     /\ Len(result.sprints) >= 2) =>
        result.trend = LabelOf(result.velocity_change)

\* the label never contradicts the reported change by more than its
\* rounding: improving comes with at least 5, declining with at most -5,
\* stable with a change from -5 to 5
C24_TrendWithinRounding ==
    (last.op = "get_velocity_trend" /\ result.kind = "velocity_trend"
     /\ Len(result.sprints) >= 2) =>
        /\ result.trend \in {"improving", "declining", "stable"}
        /\ result.trend = "improving" => result.velocity_change >= 500
        /\ result.trend = "declining" => result.velocity_change <= -500
        /\ result.trend = "stable" =>
              result.velocity_change >= -500 /\ result.velocity_change <= 500

(***************************************************************************)
(* C25  A valid report scores at least 50.                                 *)
(***************************************************************************)
\* the two validator tools were called on one text, the remembered call
\* first: the outcome of validate_report_format and of check_report_quality
BothCalled ==
    /\ probe.op \in {"validate_report_format", "check_report_quality"}
    /\ last.op \in {"validate_report_format", "check_report_quality"}
    /\ probe.op # last.op
    /\ probe.args = last.args

Validation == IF last.op = "validate_report_format" THEN result ELSE probe.result.value
Quality == IF last.op = "check_report_quality" THEN result ELSE probe.result.value

\* C25: when validate_report_format finds a text valid,
\* check_report_quality on the same text applies no penalty for the
\* summary, for problem identification and for data source coverage, and
\* its quality_score is at least 50.
C25_ValidScoresFifty ==
    (BothCalled /\ Validation.valid) =>
        /\ ~InSeq("Missing executive summary", Quality.improvement_areas)
        /\ ~InSeq("Doesn't clearly identify problems", Quality.improvement_areas)
        /\ ~InSeq("Limited data source coverage", Quality.improvement_areas)
        /\ Quality.quality_score >= 50

\* a valid report without figures, advice or paragraphs: the score is 50
C25_Witness ==
    /\ BothCalled /\ last.op = "check_report_quality"
    /\ Validation.valid /\ Validation.word_count >= 100
    /\ Quality.quality_score = 50 /\ Len(Quality.improvement_areas) = 3

\* the converse fails: a report that scores 100 and is not valid
C25_FullScoreNotValid ==
    /\ BothCalled /\ last.op = "validate_report_format"
    /\ Quality.quality_score = 100
    /\ ~Validation.valid
====
